---- MODULE Spec2Model ----
(***************************************************************************)
(* Model of the voice-chat backend (apps/api/src/index.ts): the per-socket *)
(* maps, the triggerChatGPTWithWait coalescer, processWithChatGPT and its  *)
(* streaming text-to-speech, the audio buffer with its finalization and    *)
(* partial transcription, and the interrupt / disconnect handlers.         *)
(*                                                                         *)
(* Node runs the handlers on one event loop: a handler runs undisturbed    *)
(* until it awaits an external call (OpenAI chat, transcription, speech)   *)
(* or returns.  An action of this module is one such run: a socket event   *)
(* or a timer callback up to its first await, or the continuation of an    *)
(* await up to the next one.  The external services are the environment:   *)
(* what they answer, whether they fail, and whether an abort() takes       *)
(* effect before the answer arrives are chosen nondeterministically.       *)
(*                                                                         *)
(* Texts are sequences of one-character strings, so that String.trim and   *)
(* the sentence regex are computed and not assumed.                        *)
(***************************************************************************)
EXTENDS Integers, Sequences, FiniteSets, TLC

(***************************************************************************)
(* Bounds of the environment, per specification: the number of events of   *)
(* the environment that are not answers to a call of the program (messages *)
(* of the clients and failures of the services), and the number of parts   *)
(* the chat streams deliver.                                               *)
(***************************************************************************)
BurstEvents == 3
TrigEvents == 3
TurnEvents == 3
TurnParts == 2
HistEvents == 11
AudioEvents == 3
IsoEvents == 3
IsoParts == 1
QueueEvents == 3
LiveEvents == 3
TypingEvents == 2
PartialEvents == 3
LangEvents == 3
OnceEvents == 3
PairEvents == 12

(***************************************************************************)
(* Program constants.                                                      *)
(***************************************************************************)
maxMessages == 20
maxBytes == 1500000
minPartialBytes == 9000
minPartialChars == 8

SocketIds == {"s1", "s2"}

(***************************************************************************)
(* Texts.                                                                  *)
(***************************************************************************)
\* A text is a sequence of characters, each a string.  The module is written
\* in ASCII: an ASCII character is the string of length 1 that holds it, and
\* a character outside ASCII stands in a text as its name, "U+00A0" for the
\* no-break space: one element of the text, one unit of its length.
VerticalTab == ""

\* The characters String.prototype.trim strips: WhiteSpace (U+0009, U+000B,
\* U+000C, U+FEFF and the space separators U+0020, U+00A0, U+1680,
\* U+2000..U+200A, U+202F, U+205F, U+3000) and LineTerminator (U+000A,
\* U+000D, U+2028, U+2029)
WhiteSpace ==
  {"\t", VerticalTab, "\f", " ", "\n", "\r",
   "U+00A0", "U+1680", "U+FEFF",
   "U+2000", "U+2001", "U+2002", "U+2003", "U+2004", "U+2005",
   "U+2006", "U+2007", "U+2008", "U+2009", "U+200A",
   "U+2028", "U+2029", "U+202F", "U+205F", "U+3000"}

IsSpace(c) == c \in WhiteSpace

IsTerminator(c) == c \in {".", "!", "?"}

RECURSIVE TrimStart(_)
TrimStart(t) ==
  IF t # <<>> /\ IsSpace(Head(t)) THEN TrimStart(Tail(t)) ELSE t

RECURSIVE TrimEnd(_)
TrimEnd(t) ==
  IF t # <<>> /\ IsSpace(t[Len(t)]) THEN TrimEnd(SubSeq(t, 1, Len(t) - 1)) ELSE t

\* String.prototype.trim
Trim(t) == TrimEnd(TrimStart(t))

\* Length of the longest prefix of t from position i on without a terminator
RECURSIVE RunLen(_, _)
RunLen(t, i) ==
  IF i > Len(t) \/ IsTerminator(t[i]) THEN 0 ELSE 1 + RunLen(t, i + 1)

\* text.match(/[^.!?]+[.!?]?/g) from position i on: the matches in order
RECURSIVE MatchFrom(_, _)
MatchFrom(t, i) ==
  IF i > Len(t) THEN <<>>
  ELSE IF IsTerminator(t[i]) THEN MatchFrom(t, i + 1)
  ELSE LET n == RunLen(t, i)
           e == IF i + n <= Len(t) THEN i + n ELSE i + n - 1
       IN  <<SubSeq(t, i, e)>> \o MatchFrom(t, e + 1)

\* text.match(/[^.!?]+[.!?]?/g) || [text]
SplitSentences(t) ==
  IF MatchFrom(t, 1) = <<>> THEN <<t>> ELSE MatchFrom(t, 1)

RECURSIVE Flatten(_)
Flatten(ss) == IF ss = <<>> THEN <<>> ELSE Head(ss) \o Flatten(Tail(ss))

\* The sentences the loop does not skip (if (!sentence.trim()) continue),
\* each as passed to convertTextToSpeech (sentence.trim())
RECURSIVE SpokenUnits(_)
SpokenUnits(ss) ==
  IF ss = <<>> THEN <<>>
  ELSE IF Trim(Head(ss)) = <<>> THEN SpokenUnits(Tail(ss))
  ELSE <<Trim(Head(ss))>> \o SpokenUnits(Tail(ss))

(***************************************************************************)
(* Maps (Map<string, V>) as functions with a changing domain.              *)
(***************************************************************************)
Has(map, k) == k \in DOMAIN map

Put(map, k, v) == [x \in (DOMAIN map) \cup {k} |-> IF x = k THEN v ELSE map[x]]

Del(map, k) == [x \in (DOMAIN map) \ {k} |-> map[x]]

EmptyMap == [x \in {} |-> 0]

\* An optional value: null is <<>>, a value v is <<v>>
Null == <<>>

Some(v) == <<v>>

(***************************************************************************)
(* State.                                                                  *)
(***************************************************************************)
VARIABLES
  connected,               \* sockets whose handlers are registered and live
  everConnected,           \* socket ids already used (socket.io ids are unique)
  audioBuffers,            \* Map socket -> sequence of chunks [id, len]
  processingSockets,       \* Set of sockets
  sttDebounceTimers,       \* Map socket -> id of the last debounce timer
  sttInProgress,           \* Set of sockets
  conversationHistory,     \* Map socket -> sequence of [role, content]
  conversationPreferences, \* Map socket -> [targetLanguage, lastDetectedLanguage]
  lastInputSource,         \* Map socket -> "voice" | "text"
  controllersBySocket,     \* Map socket -> [llm, stt, tts], each Null or Some(id)
  chatGPTCallStates,       \* keys of the Map socket -> ChatGPTCallState object
  stateObjs,               \* socket -> its ChatGPTCallState object (closures keep it alive)
  conversationVersions,    \* Map socket -> number
  abortedControllers,      \* AbortControllers on which abort() was called
  waitTimers,              \* socket -> number of armed setTimeout(.., waitTime) closures
  armedSttTimers,          \* armed debounce timers [sock, id]
  turns,                   \* processWithChatGPT invocations that have not returned
  finals,                  \* processCompleteAudio invocations awaiting toFile or the transcription
  partials,                \* partial transcriptions awaiting the transcription
  nextId,                  \* the next turn, controller, timer and chunk id
  events,                  \* socket.emit calls, in order
  calls,                   \* processWithChatGPT calls, in order (history variable)
  burst,                   \* socket -> the current burst of normal triggers (history variable)
  checks,                  \* results of the staleness checks made (history variable)
  finished,                \* the invocations of processWithChatGPT that returned (history variable)
  drains,                  \* the audio each finalization took from the buffer, in order (history variable)
  env                      \* what the environment may still do

vars ==
  <<connected, everConnected, audioBuffers, processingSockets, sttDebounceTimers,
    sttInProgress, conversationHistory, conversationPreferences, lastInputSource,
    controllersBySocket, chatGPTCallStates, stateObjs, conversationVersions,
    abortedControllers, waitTimers, armedSttTimers, turns, finals, partials,
    nextId, events, calls, burst, checks, finished, drains, env>>

\* The program state as one record, so that a function of the source is an
\* operator from state to state and a handler is a composition of them
Cur ==
  [connected |-> connected, everConnected |-> everConnected,
   audioBuffers |-> audioBuffers, processingSockets |-> processingSockets,
   sttDebounceTimers |-> sttDebounceTimers, sttInProgress |-> sttInProgress,
   conversationHistory |-> conversationHistory,
   conversationPreferences |-> conversationPreferences,
   lastInputSource |-> lastInputSource,
   controllersBySocket |-> controllersBySocket,
   chatGPTCallStates |-> chatGPTCallStates, stateObjs |-> stateObjs,
   conversationVersions |-> conversationVersions,
   abortedControllers |-> abortedControllers, waitTimers |-> waitTimers,
   armedSttTimers |-> armedSttTimers, turns |-> turns, finals |-> finals,
   partials |-> partials, nextId |-> nextId, events |-> events, calls |-> calls,
   burst |-> burst, checks |-> checks, finished |-> finished, drains |-> drains,
   env |-> env]

Install(m) ==
  /\ connected' = m.connected
  /\ everConnected' = m.everConnected
  /\ audioBuffers' = m.audioBuffers
  /\ processingSockets' = m.processingSockets
  /\ sttDebounceTimers' = m.sttDebounceTimers
  /\ sttInProgress' = m.sttInProgress
  /\ conversationHistory' = m.conversationHistory
  /\ conversationPreferences' = m.conversationPreferences
  /\ lastInputSource' = m.lastInputSource
  /\ controllersBySocket' = m.controllersBySocket
  /\ chatGPTCallStates' = m.chatGPTCallStates
  /\ stateObjs' = m.stateObjs
  /\ conversationVersions' = m.conversationVersions
  /\ abortedControllers' = m.abortedControllers
  /\ waitTimers' = m.waitTimers
  /\ armedSttTimers' = m.armedSttTimers
  /\ turns' = m.turns
  /\ finals' = m.finals
  /\ partials' = m.partials
  /\ nextId' = m.nextId
  /\ events' = m.events
  /\ calls' = m.calls
  /\ burst' = m.burst
  /\ checks' = m.checks
  /\ finished' = m.finished
  /\ drains' = m.drains

(***************************************************************************)
(* socket.emit.  An event is [sock, ev, text, flag, msg, turn, cause]:     *)
(* text, flag and msg are the payload; turn is the processWithChatGPT      *)
(* invocation that emitted it (0: none) and cause, on an error event, is   *)
(* what the caught exception was ("abort": the rejection of an aborted     *)
(* call, "failure": any other).  turn and cause are not sent.              *)
(***************************************************************************)
Ev(s, ev, text, flag, msg, turn, cause) ==
  [sock |-> s, ev |-> ev, text |-> text, flag |-> flag, msg |-> msg,
   turn |-> turn, cause |-> cause]

\* A specification that observes no event does not record them (env.log)
Emit(m, e) == IF m.env.log THEN [m EXCEPT !.events = Append(@, e)] ELSE m

NoBurst == [phase |-> "none", inputs |-> <<>>, calls |-> <<>>]

(***************************************************************************)
(* Reads with the defaults the source gives them.                          *)
(***************************************************************************)
\* conversationVersions.get(socketId) || 0
Version(m, s) ==
  IF Has(m.conversationVersions, s) THEN m.conversationVersions[s] ELSE 0

DefaultPrefs == [targetLanguage |-> "auto", lastDetectedLanguage |-> ""]

\* conversationPreferences.get(socketId) || { targetLanguage: 'auto' }
Prefs(m, s) ==
  IF Has(m.conversationPreferences, s) THEN m.conversationPreferences[s]
  ELSE DefaultPrefs

NoControllers == [llm |-> Null, stt |-> Null, tts |-> Null]

\* controllersBySocket.get(socketId) || {}
Controllers(m, s) ==
  IF Has(m.controllersBySocket, s) THEN m.controllersBySocket[s] ELSE NoControllers

\* (lastInputSource.get(socketId) || 'text') === 'voice'
IsVoice(m, s) == Has(m.lastInputSource, s) /\ m.lastInputSource[s] = "voice"

TurnsOf(m, s) == {t \in m.turns : t.sock = s}

(***************************************************************************)
(* abortInFlightControllers                                                *)
(***************************************************************************)
\* abortInFlightControllers aborting and clearing the controllers of every
\* socket
abortEveryController(m, s) ==
  LET ids == UNION {{c.llm[i] : i \in DOMAIN c.llm} \cup {c.stt[i] : i \in DOMAIN c.stt}
                      \cup {c.tts[i] : i \in DOMAIN c.tts} :
                    c \in {m.controllersBySocket[k] : k \in DOMAIN m.controllersBySocket}}
  IN  [m EXCEPT !.abortedControllers = @ \cup ids,
                !.controllersBySocket = [k \in DOMAIN @ |-> NoControllers]]

\* abortInFlightControllers aborting the llm controller only
abortLlmControllerOnly(m, s) ==
  IF ~Has(m.controllersBySocket, s) THEN m
  ELSE LET c == m.controllersBySocket[s]
           ids == {c.llm[i] : i \in DOMAIN c.llm}
       IN  [m EXCEPT !.abortedControllers = @ \cup ids,
                     !.controllersBySocket = Put(@, s, NoControllers)]

abortInFlightControllers(m, s) ==
  IF ~Has(m.controllersBySocket, s) THEN m
  ELSE LET c == m.controllersBySocket[s]
           ids == {c.llm[i] : i \in DOMAIN c.llm} \cup {c.stt[i] : i \in DOMAIN c.stt}
                    \cup {c.tts[i] : i \in DOMAIN c.tts}
       IN  [m EXCEPT !.abortedControllers = @ \cup ids,
                     !.controllersBySocket = Put(@, s, NoControllers)]

(***************************************************************************)
(* pruneHistory                                                            *)
(***************************************************************************)
pruneHistory(history, max) ==
  IF Len(history) <= max THEN history
  ELSE SubSeq(history, Len(history) - max + 1, Len(history))

(***************************************************************************)
(* processWithChatGPT                                                      *)
(***************************************************************************)
\* The language directive of the system prompt
LanguageDirective(prefs) ==
  LET targetLanguage ==
        IF prefs.targetLanguage = "auto"
        THEN (IF prefs.lastDetectedLanguage # "" THEN prefs.lastDetectedLanguage
              ELSE "auto")
        ELSE prefs.targetLanguage
  IN  IF targetLanguage = "auto"
      THEN <<"Respond in the same language as the user input.">>
      ELSE <<"Respond in ", targetLanguage, ".">>

\* The function returns: its record goes, and the awaiting
\* triggerChatGPTWithWait arms its wait timer (lines 153-162); when
\* processCompleteAudio awaited that, its finally block runs (lines 414-417)
ReturnTurn(m, t, outcome) ==
  [m EXCEPT
     !.turns = @ \ {t},
     !.finished = IF m.env.log
                  THEN Put(@, t.id, [sock |-> t.sock, input |-> t.input, outcome |-> outcome,
                                     interrupted |-> t.interrupted, streamed |-> t.streamed])
                  ELSE @,
     !.waitTimers = [@ EXCEPT ![t.sock] = @ + 1],
     !.processingSockets = IF t.caller = "final" THEN @ \ {t.sock} ELSE @]

\* The check of streamTextToSpeech before each chunk (lines 715-719)
TtsIsStale(m, s) ==
  LET currentVersion == Version(m, s)
  IN  Version(m, s) # currentVersion

RECURSIVE SkipBlank(_)
SkipBlank(ss) ==
  IF ss # <<>> /\ Trim(Head(ss)) = <<>> THEN SkipBlank(Tail(ss)) ELSE ss

\* SpeakFrom emitting ai-audio-done only when a sentence was spoken
SpeakFromDoneOnlyAfterSpeech(m, t, ss) ==
  LET rest == SkipBlank(ss) IN
  IF rest = <<>> \/ TtsIsStale(m, t.sock)
  THEN LET m1 == IF t.pc = "tts"
                 THEN Emit(m, Ev(t.sock, "ai-audio-done", <<>>, FALSE, "", t.id, ""))
                 ELSE m
           m2 == Emit(m1, Ev(t.sock, "ai-response", t.aiResponse, FALSE, "", t.id, ""))
       IN  ReturnTurn(m2, t, "complete")
  ELSE [m EXCEPT !.turns = (@ \ {t}) \cup
          {[t EXCEPT !.pc = "tts", !.speaking = Trim(Head(rest)), !.todo = Tail(rest)]}]

\* SpeakFrom emitting ai-response before ai-audio-done
SpeakFromReplyBeforeDone(m, t, ss) ==
  LET rest == SkipBlank(ss) IN
  IF rest = <<>> \/ TtsIsStale(m, t.sock)
  THEN LET m1 == Emit(m, Ev(t.sock, "ai-response", t.aiResponse, FALSE, "", t.id, ""))
           m2 == Emit(m1, Ev(t.sock, "ai-audio-done", <<>>, FALSE, "", t.id, ""))
       IN  ReturnTurn(m2, t, "complete")
  ELSE [m EXCEPT !.turns = (@ \ {t}) \cup
          {[t EXCEPT !.pc = "tts", !.speaking = Trim(Head(rest)), !.todo = Tail(rest)]}]

\* streamTextToSpeech from the sentences ss on, up to the next await of
\* convertTextToSpeech; at the end of the loop the rest of processWithChatGPT
SpeakFrom(m, t, ss) ==
  LET rest == SkipBlank(ss) IN
  IF rest = <<>> \/ TtsIsStale(m, t.sock)
  THEN LET m1 == Emit(m, Ev(t.sock, "ai-audio-done", <<>>, FALSE, "", t.id, ""))
           m2 == Emit(m1, Ev(t.sock, "ai-response", t.aiResponse, FALSE, "", t.id, ""))
       IN  ReturnTurn(m2, t, "complete")
  ELSE [m EXCEPT !.turns = (@ \ {t}) \cup
          {[t EXCEPT !.pc = "tts", !.speaking = Trim(Head(rest)), !.todo = Tail(rest)]}]

\* The function up to its first await, openai.chat.completions.create
processWithChatGPT(m, s, userInput, caller) ==
  LET history ==
        Append(IF Has(m.conversationHistory, s) THEN m.conversationHistory[s] ELSE <<>>,
               [role |-> "user", content |-> userInput])
      id == m.nextId.turn
      llmController == m.nextId.ctl
      directive == LanguageDirective(Prefs(m, s))
      call == [input |-> userInput, via |-> IF caller = "timer" THEN "timer" ELSE "sync"]
      turn == [id |-> id, sock |-> s, input |-> userInput, caller |-> caller,
               pc |-> "create", versionAtStart |-> Version(m, s),
               ctl |-> llmController, history |-> history,
               messages |-> <<[role |-> "system", content |-> directive]>> \o history,
               aiResponse |-> <<>>, parts |-> 0, speaking |-> <<>>, todo |-> <<>>,
               interrupted |-> FALSE, streamed |-> <<>>]
      m1 == [m EXCEPT
               !.conversationHistory = Put(@, s, history),
               !.nextId = [@ EXCEPT !.turn = @ + 1, !.ctl = @ + 1],
               !.calls = IF m.env.log
                         THEN Append(@, [sock |-> s, turn |-> id, input |-> userInput,
                                         via |-> call.via])
                         ELSE @,
               !.burst = [@ EXCEPT ![s] =
                            IF @.phase \in {"open", "closing"}
                            THEN [@ EXCEPT !.calls = Append(@, call)] ELSE @],
               !.controllersBySocket = Put(@, s, [Controllers(m, s) EXCEPT !.llm = Some(llmController)]),
               !.turns = @ \cup {turn}]
      m2 == Emit(m1, Ev(s, "message-received", userInput, IsVoice(m, s), "", id, ""))
  IN  Emit(m2, Ev(s, "ai-typing", <<>>, TRUE, "", id, ""))

\* The catch block storing what was streamed so far as the assistant message
CatchKeepingPartialReply(m, t, cause) ==
  LET m0 == [m EXCEPT !.conversationHistory =
                        Put(@, t.sock, Append(t.history, [role |-> "assistant",
                                                          content |-> t.aiResponse]))]
      m1 == Emit(m0, Ev(t.sock, "ai-typing", <<>>, FALSE, "", t.id, ""))
      m2 == Emit(m1, Ev(t.sock, "error", <<>>, FALSE, "Failed to get AI response", t.id, cause))
  IN  ReturnTurn(m2, t, "failed")

\* The catch block (lines 656-670)
CatchChatGPTError(m, t, cause) ==
  LET m1 == Emit(m, Ev(t.sock, "ai-typing", <<>>, FALSE, "", t.id, ""))
      m2 == Emit(m1, Ev(t.sock, "error", <<>>, FALSE, "Failed to get AI response", t.id, cause))
  IN  ReturnTurn(m2, t, "failed")

\* The stream is open (lines 578-585)
StreamOpened(m, t) ==
  LET m1 == Emit(m, Ev(t.sock, "ai-message-start", <<>>, FALSE, "", t.id, ""))
  IN  [m1 EXCEPT !.turns = (@ \ {t}) \cup {[t EXCEPT !.pc = "stream"]}]

\* The interrupt check inside the loop (line 588)
IsStale(m, t) == Version(m, t.sock) # t.versionAtStart

\* One iteration of the for-await loop returning, when the turn is stale,
\* without the typing(false)
StreamPartAbortingSilently(m, t, token) ==
  LET stale == IsStale(m, t)
      m0 == IF m.env.log
            THEN [m EXCEPT !.checks = @ \cup {[turn |-> t.id, interrupted |-> t.interrupted,
                                               stale |-> stale]}]
            ELSE m
  IN  IF stale
      THEN ReturnTurn(m0, t, "stale")
      ELSE LET t1 == [t EXCEPT !.parts = @ + 1, !.streamed = Append(@, token),
                               !.aiResponse = IF token # <<>> THEN @ \o token ELSE @]
               m1 == [m0 EXCEPT !.turns = (@ \ {t}) \cup {t1}]
           IN  IF token # <<>>
               THEN Emit(m1, Ev(t.sock, "ai-token", token, FALSE, "", t.id, ""))
               ELSE m1

\* One iteration of the for-await loop (lines 586-602)
StreamPart(m, t, token) ==
  LET stale == IsStale(m, t)
      m0 == IF m.env.log
            THEN [m EXCEPT !.checks = @ \cup {[turn |-> t.id, interrupted |-> t.interrupted,
                                               stale |-> stale]}]
            ELSE m
  IN  IF stale
      THEN ReturnTurn(Emit(m0, Ev(t.sock, "ai-typing", <<>>, FALSE, "", t.id, "")), t, "stale")
      ELSE LET t1 == [t EXCEPT !.parts = @ + 1, !.streamed = Append(@, token),
                               !.aiResponse = IF token # <<>> THEN @ \o token ELSE @]
               m1 == [m0 EXCEPT !.turns = (@ \ {t}) \cup {t1}]
           IN  IF token # <<>>
               THEN Emit(m1, Ev(t.sock, "ai-token", token, FALSE, "", t.id, ""))
               ELSE m1

\* StreamDone passing the whole reply to the speech as one unit
StreamDoneSpeakingWhole(m, t) ==
  LET history == Append(t.history, [role |-> "assistant", content |-> t.aiResponse])
      pruned == pruneHistory(history, maxMessages)
      t1 == [t EXCEPT !.history = history]
      m1 == [m EXCEPT !.conversationHistory = Put(@, t.sock, pruned),
                      !.turns = (@ \ {t}) \cup {t1}]
      m2 == Emit(m1, Ev(t.sock, "ai-typing", <<>>, FALSE, "", t.id, ""))
      m3 == Emit(m2, Ev(t.sock, "ai-message-done", t.aiResponse, FALSE, "", t.id, ""))
  IN  SpeakFrom(m3, t1, <<t.aiResponse>>)

\* StreamDone pushing the reply on the history twice
StreamDoneAppendingTwice(m, t) ==
  LET reply == [role |-> "assistant", content |-> t.aiResponse]
      history == Append(Append(t.history, reply), reply)
      pruned == pruneHistory(history, maxMessages)
      t1 == [t EXCEPT !.history = history]
      m1 == [m EXCEPT !.conversationHistory = Put(@, t.sock, pruned),
                      !.turns = (@ \ {t}) \cup {t1}]
      m2 == Emit(m1, Ev(t.sock, "ai-typing", <<>>, FALSE, "", t.id, ""))
      m3 == Emit(m2, Ev(t.sock, "ai-message-done", t.aiResponse, FALSE, "", t.id, ""))
  IN  SpeakFrom(m3, t1, SplitSentences(t.aiResponse))

\* The stream is over (lines 604-636), up to the first await of the speech
StreamDone(m, t) ==
  LET history == Append(t.history, [role |-> "assistant", content |-> t.aiResponse])
      pruned == pruneHistory(history, maxMessages)
      t1 == [t EXCEPT !.history = history]
      m1 == [m EXCEPT !.conversationHistory = Put(@, t.sock, pruned),
                      !.turns = (@ \ {t}) \cup {t1}]
      m2 == Emit(m1, Ev(t.sock, "ai-typing", <<>>, FALSE, "", t.id, ""))
      m3 == Emit(m2, Ev(t.sock, "ai-message-done", t.aiResponse, FALSE, "", t.id, ""))
  IN  SpeakFrom(m3, t1, SplitSentences(t.aiResponse))

\* SpeechSettled leaving the loop when convertTextToSpeech returned no audio
SpeechSettledStoppingOnFailure(m, t, hasAudio) ==
  LET m1 == Emit(m, Ev(t.sock, "ai-audio-chunk", t.speaking, hasAudio, "", t.id, ""))
  IN  SpeakFrom(m1, t, IF hasAudio THEN t.todo ELSE <<>>)

\* convertTextToSpeech has settled (lines 720-730): hasAudio is whether it
\* returned the audio or, having caught an error, Buffer.alloc(0)
SpeechSettled(m, t, hasAudio) ==
  LET m1 == Emit(m, Ev(t.sock, "ai-audio-chunk", t.speaking, hasAudio, "", t.id, ""))
  IN  SpeakFrom(m1, t, t.todo)

(***************************************************************************)
(* triggerChatGPTWithWait                                                  *)
(***************************************************************************)
SetState(m, s, state) == [m EXCEPT !.stateObjs = [@ EXCEPT ![s] = state]]

\* setTimeout(() => {...}, waitTime): one more armed closure over the state
\* object of s
ArmWaitTimer(m, s) == [m EXCEPT !.waitTimers = [@ EXCEPT ![s] = @ + 1]]

\* The burst of normal-mode triggers that an external trigger finding the
\* coalescer idle opens, and that the next fire of a wait timer closes
\* (history variable; caller "timer" is the replay of a pending input)
NoteTrigger(m, s, trimmedInput, queueOnly, caller) ==
  LET state == m.stateObjs[s]
      b == m.burst[s]
      b1 == IF queueOnly THEN NoBurst
            ELSE IF caller = "timer" THEN b
            ELSE IF ~state.isWaiting
                 THEN [phase |-> "open", inputs |-> <<trimmedInput>>, calls |-> <<>>]
            ELSE IF b.phase = "open"
                 THEN [b EXCEPT !.inputs = Append(@, trimmedInput)]
            ELSE b
  IN  IF m.env.bursts THEN [m EXCEPT !.burst = [@ EXCEPT ![s] = b1]] ELSE m

\* triggerChatGPTWithWait queueing an input only when none is pending
\* (the first pending input wins)
triggerKeepingFirstPending(m, s, userInput, queueOnly, caller) ==
  LET trimmedInput == Trim(userInput) IN
  IF trimmedInput = <<>>
  THEN Emit(m, Ev(s, "processing-complete", <<>>, FALSE,
                  "Empty message detected, no processing needed", 0, ""))
  ELSE IF s \notin m.chatGPTCallStates THEN m
  ELSE LET state == m.stateObjs[s]
           m0 == NoteTrigger(m, s, trimmedInput, queueOnly, caller)
           pending == IF state.pendingInput = Null THEN Some(trimmedInput)
                      ELSE state.pendingInput
       IN  IF queueOnly
           THEN IF ~state.isWaiting
                THEN ArmWaitTimer(
                       SetState(m0, s, [isWaiting |-> TRUE, pendingInput |-> pending]), s)
                ELSE SetState(m0, s, [state EXCEPT !.pendingInput = pending])
           ELSE IF ~state.isWaiting
                THEN processWithChatGPT(
                       SetState(m0, s, [state EXCEPT !.isWaiting = TRUE]), s, trimmedInput, caller)
                ELSE SetState(m0, s, [state EXCEPT !.pendingInput = pending])

\* triggerChatGPTWithWait arming the wait timer when it starts the call and
\* not when the call has returned
triggerArmingAtStart(m, s, userInput, queueOnly, caller) ==
  LET trimmedInput == Trim(userInput) IN
  IF trimmedInput = <<>>
  THEN Emit(m, Ev(s, "processing-complete", <<>>, FALSE,
                  "Empty message detected, no processing needed", 0, ""))
  ELSE IF s \notin m.chatGPTCallStates THEN m
  ELSE LET state == m.stateObjs[s]
           m0 == NoteTrigger(m, s, trimmedInput, queueOnly, caller)
       IN  IF queueOnly
           THEN IF ~state.isWaiting
                THEN ArmWaitTimer(
                       SetState(m0, s, [isWaiting |-> TRUE, pendingInput |-> Some(trimmedInput)]), s)
                ELSE SetState(m0, s, [state EXCEPT !.pendingInput = Some(trimmedInput)])
           ELSE IF ~state.isWaiting
                THEN ArmWaitTimer(
                       processWithChatGPT(
                         SetState(m0, s, [state EXCEPT !.isWaiting = TRUE]), s, trimmedInput, caller),
                       s)
                ELSE SetState(m0, s, [state EXCEPT !.pendingInput = Some(trimmedInput)])

\* triggerChatGPTWithWait testing the input as given and not as trimmed
triggerTestingUntrimmed(m, s, userInput, queueOnly, caller) ==
  LET trimmedInput == Trim(userInput) IN
  IF userInput = <<>>
  THEN Emit(m, Ev(s, "processing-complete", <<>>, FALSE,
                  "Empty message detected, no processing needed", 0, ""))
  ELSE IF s \notin m.chatGPTCallStates THEN m
  ELSE LET state == m.stateObjs[s]
           m0 == NoteTrigger(m, s, trimmedInput, queueOnly, caller)
       IN  IF queueOnly
           THEN IF ~state.isWaiting
                THEN ArmWaitTimer(
                       SetState(m0, s, [isWaiting |-> TRUE, pendingInput |-> Some(trimmedInput)]), s)
                ELSE SetState(m0, s, [state EXCEPT !.pendingInput = Some(trimmedInput)])
           ELSE IF ~state.isWaiting
                THEN processWithChatGPT(
                       SetState(m0, s, [state EXCEPT !.isWaiting = TRUE]), s, trimmedInput, caller)
                ELSE SetState(m0, s, [state EXCEPT !.pendingInput = Some(trimmedInput)])

\* triggerChatGPTWithWait in queue-only mode leaving an input that is already
\* pending in place
triggerQueueOnlyKeepingPending(m, s, userInput, queueOnly, caller) ==
  LET trimmedInput == Trim(userInput) IN
  IF trimmedInput = <<>>
  THEN Emit(m, Ev(s, "processing-complete", <<>>, FALSE,
                  "Empty message detected, no processing needed", 0, ""))
  ELSE IF s \notin m.chatGPTCallStates THEN m
  ELSE LET state == m.stateObjs[s]
           m0 == NoteTrigger(m, s, trimmedInput, queueOnly, caller)
       IN  IF queueOnly
           THEN IF ~state.isWaiting
                THEN ArmWaitTimer(
                       SetState(m0, s, [isWaiting |-> TRUE, pendingInput |-> Some(trimmedInput)]), s)
                ELSE IF state.pendingInput = Null
                     THEN SetState(m0, s, [state EXCEPT !.pendingInput = Some(trimmedInput)])
                     ELSE m0
           ELSE IF ~state.isWaiting
                THEN processWithChatGPT(
                       SetState(m0, s, [state EXCEPT !.isWaiting = TRUE]), s, trimmedInput, caller)
                ELSE SetState(m0, s, [state EXCEPT !.pendingInput = Some(trimmedInput)])

\* triggerChatGPTWithWait working on the state object it is given, without
\* looking the socket up in chatGPTCallStates
triggerWithoutLookup(m, s, userInput, queueOnly, caller) ==
  LET trimmedInput == Trim(userInput) IN
  IF trimmedInput = <<>>
  THEN Emit(m, Ev(s, "processing-complete", <<>>, FALSE,
                  "Empty message detected, no processing needed", 0, ""))
  ELSE LET state == m.stateObjs[s]
           m0 == NoteTrigger(m, s, trimmedInput, queueOnly, caller)
       IN  IF queueOnly
           THEN IF ~state.isWaiting
                THEN ArmWaitTimer(
                       SetState(m0, s, [isWaiting |-> TRUE, pendingInput |-> Some(trimmedInput)]), s)
                ELSE SetState(m0, s, [state EXCEPT !.pendingInput = Some(trimmedInput)])
           ELSE IF ~state.isWaiting
                THEN processWithChatGPT(
                       SetState(m0, s, [state EXCEPT !.isWaiting = TRUE]), s, trimmedInput, caller)
                ELSE SetState(m0, s, [state EXCEPT !.pendingInput = Some(trimmedInput)])

\* The function up to the await of processWithChatGPT (lines 110-151) or to
\* its return; what follows the await is in ReturnTurn
triggerChatGPTWithWait(m, s, userInput, queueOnly, caller) ==
  LET trimmedInput == Trim(userInput) IN
  IF trimmedInput = <<>>
  THEN Emit(m, Ev(s, "processing-complete", <<>>, FALSE,
                  "Empty message detected, no processing needed", 0, ""))
  ELSE IF s \notin m.chatGPTCallStates THEN m
  ELSE LET state == m.stateObjs[s]
           m0 == NoteTrigger(m, s, trimmedInput, queueOnly, caller)
       IN  IF queueOnly
           THEN IF ~state.isWaiting
                THEN ArmWaitTimer(
                       SetState(m0, s, [isWaiting |-> TRUE, pendingInput |-> Some(trimmedInput)]), s)
                ELSE SetState(m0, s, [state EXCEPT !.pendingInput = Some(trimmedInput)])
           ELSE IF ~state.isWaiting
                THEN processWithChatGPT(
                       SetState(m0, s, [state EXCEPT !.isWaiting = TRUE]), s, trimmedInput, caller)
                ELSE SetState(m0, s, [state EXCEPT !.pendingInput = Some(trimmedInput)])

\* Whether the call of triggerChatGPTWithWait made in m is still awaiting
\* processWithChatGPT in m2
StartedTurn(m, m2) == \E t \in m2.turns : t.id = m.nextId.turn

\* The callback of the wait timers replaying the pending input without
\* clearing it
WaitTimerCallbackKeepingPending(m, s) ==
  LET state == m.stateObjs[s]
      closing == m.burst[s].phase = "open"
      m1 == [SetState(m, s, [state EXCEPT !.isWaiting = FALSE])
               EXCEPT !.waitTimers = [@ EXCEPT ![s] = @ - 1],
                      !.burst = [@ EXCEPT ![s] = IF closing THEN [@ EXCEPT !.phase = "closing"] ELSE @]]
      m2 == IF state.pendingInput # Null
            THEN triggerChatGPTWithWait(m1, s, state.pendingInput[1], FALSE, "timer")
            ELSE m1
  IN  [m2 EXCEPT !.burst = [@ EXCEPT ![s] = IF @.phase = "closing" THEN [@ EXCEPT !.phase = "closed"] ELSE @]]

\* The callback of the wait timers (lines 134-141 and 154-162)
WaitTimerCallback(m, s) ==
  LET state == m.stateObjs[s]
      closing == m.burst[s].phase = "open"
      m1 == [SetState(m, s, [isWaiting |-> FALSE, pendingInput |-> Null])
               EXCEPT !.waitTimers = [@ EXCEPT ![s] = @ - 1],
                      !.burst = [@ EXCEPT ![s] = IF closing THEN [@ EXCEPT !.phase = "closing"] ELSE @]]
      m2 == IF state.pendingInput # Null
            THEN triggerChatGPTWithWait(m1, s, state.pendingInput[1], FALSE, "timer")
            ELSE m1
  IN  [m2 EXCEPT !.burst = [@ EXCEPT ![s] = IF @.phase = "closing" THEN [@ EXCEPT !.phase = "closed"] ELSE @]]

(***************************************************************************)
(* Socket handlers.                                                        *)
(***************************************************************************)
\* io.on('connection') (lines 190-205)
OnConnection(m, s) ==
  [m EXCEPT
     !.connected = @ \cup {s},
     !.everConnected = @ \cup {s},
     !.audioBuffers = Put(@, s, <<>>),
     !.conversationHistory = Put(@, s, <<>>),
     !.conversationVersions = Put(@, s, 0),
     !.conversationPreferences = Put(@, s, DefaultPrefs),
     !.lastInputSource = Put(@, s, "text"),
     !.chatGPTCallStates = @ \cup {s},
     !.stateObjs = [@ EXCEPT ![s] = [isWaiting |-> FALSE, pendingInput |-> Null]]]

\* The interrupt handler keeping the version as a flag that it toggles
OnInterruptTogglingVersion(m, s) ==
  LET m1 == [m EXCEPT !.conversationVersions = Put(@, s, 1 - Version(m, s)),
                      !.turns = {[t EXCEPT !.interrupted = @ \/ t.sock = s] : t \in @}]
      m2 == abortInFlightControllers(m1, s)
  IN  Emit(m2, Ev(s, "ai-typing", <<>>, FALSE, "interrupt", 0, ""))

\* socket.on('interrupt') (lines 245-253)
OnInterrupt(m, s) ==
  LET m1 == [m EXCEPT !.conversationVersions = Put(@, s, Version(m, s) + 1),
                      !.turns = {[t EXCEPT !.interrupted = @ \/ t.sock = s] : t \in @}]
      m2 == abortInFlightControllers(m1, s)
  IN  Emit(m2, Ev(s, "ai-typing", <<>>, FALSE, "interrupt", 0, ""))

\* socket.on('text-message') (lines 256-272)
OnTextMessage(m, s, text) ==
  triggerChatGPTWithWait([m EXCEPT !.lastInputSource = Put(@, s, "text")],
                         s, text, FALSE, "text")

\* The characters of a text as one string
RECURSIVE Join(_)
Join(cs) == IF cs = <<>> THEN "" ELSE Head(cs) \o Join(Tail(cs))

\* socket.on('set-language') (lines 275-286); language is data.language as
\* its characters (<<>>: none given)
OnSetLanguage(m, s, language) ==
  LET lang == Join(Trim(IF language = <<>> THEN <<"a", "u", "t", "o">> ELSE language))
      prefs == [Prefs(m, s) EXCEPT !.targetLanguage = IF lang = "" THEN "auto" ELSE lang]
      m1 == [m EXCEPT !.conversationPreferences = Put(@, s, prefs)]
  IN  Emit(m1, Ev(s, "language-updated", <<>>, FALSE, prefs.targetLanguage, 0, ""))

\* socket.on('disconnect') (lines 306-314); socket.io calls no handler of
\* the socket afterwards
OnDisconnect(m, s) ==
  [m EXCEPT
     !.connected = @ \ {s},
     !.audioBuffers = Del(@, s),
     !.conversationHistory = Del(@, s),
     !.chatGPTCallStates = @ \ {s},
     !.conversationVersions = Del(@, s),
     !.burst = [@ EXCEPT ![s] = NoBurst]]

(***************************************************************************)
(* Audio: the buffer, finalization and partial transcription.              *)
(***************************************************************************)
RECURSIVE TotalBytes(_)
TotalBytes(buffer) ==
  IF buffer = <<>> THEN 0 ELSE Head(buffer).len + TotalBytes(Tail(buffer))

\* The trimming loop removing the newest chunks (buffer.pop())
RECURSIVE TrimBufferDroppingNewest(_)
TrimBufferDroppingNewest(buffer) ==
  IF TotalBytes(buffer) > maxBytes /\ Len(buffer) > 1
  THEN TrimBufferDroppingNewest(SubSeq(buffer, 1, Len(buffer) - 1))
  ELSE buffer

\* The trimming loop stopping at two chunks held
RECURSIVE TrimBufferKeepingTwo(_)
TrimBufferKeepingTwo(buffer) ==
  IF TotalBytes(buffer) > maxBytes /\ Len(buffer) > 2
  THEN TrimBufferKeepingTwo(Tail(buffer))
  ELSE buffer

\* while (total > maxBytes && buffer.length > 1) buffer.shift()
RECURSIVE TrimBuffer(_)
TrimBuffer(buffer) ==
  IF TotalBytes(buffer) > maxBytes /\ Len(buffer) > 1 THEN TrimBuffer(Tail(buffer))
  ELSE buffer

\* The ctl of a finalization that awaits toFile: its AbortController is not
\* created yet
NoController == 0

\* Registers a new AbortController as the stt controller of s (lines 368-371)
RegisterStt(m, s, ctl) ==
  [m EXCEPT !.controllersBySocket = Put(@, s, [Controllers(m, s) EXCEPT !.stt = Some(ctl)])]

\* if (transcription?.language) {...} (lines 392-396 and 457-461)
NoteLanguage(m, s, language) ==
  IF language = "" THEN m
  ELSE [m EXCEPT !.conversationPreferences =
                   Put(@, s, [Prefs(m, s) EXCEPT !.lastDetectedLanguage = language])]

\* The finally block of processCompleteAudio (lines 414-417)
FinallyComplete(m, s) == [m EXCEPT !.processingSockets = @ \ {s}]

\* processCompleteAudio taking the audio without clearing the buffer
processCompleteAudioKeepingBuffer(m, s) ==
  IF ~Has(m.audioBuffers, s) \/ m.audioBuffers[s] = <<>> THEN FinallyComplete(m, s)
  ELSE IF s \in m.processingSockets THEN FinallyComplete(m, s)
  ELSE LET buffer == m.audioBuffers[s]
           m1 == [m EXCEPT !.processingSockets = @ \cup {s}]
       IN  IF TotalBytes(buffer) = 0 THEN FinallyComplete(m1, s)
           ELSE [m1 EXCEPT !.finals = @ \cup {[sock |-> s, ctl |-> NoController,
                                               audio |-> buffer]},
                           !.drains = IF m.env.log
                                      THEN Append(@, [sock |-> s, audio |-> buffer])
                                      ELSE @]

\* processCompleteAudio up to the await of toFile (lines 318-357).  Every
\* return is inside the try, so the finally block runs on each.  The
\* finalization holds no AbortController yet.
processCompleteAudio(m, s) ==
  IF ~Has(m.audioBuffers, s) \/ m.audioBuffers[s] = <<>> THEN FinallyComplete(m, s)
  ELSE IF s \in m.processingSockets THEN FinallyComplete(m, s)
  ELSE LET buffer == m.audioBuffers[s]
           m1 == [m EXCEPT !.processingSockets = @ \cup {s}]
       IN  IF TotalBytes(buffer) = 0 THEN FinallyComplete(m1, s)
           ELSE [m1 EXCEPT !.audioBuffers = Put(@, s, <<>>),
                           !.finals = @ \cup {[sock |-> s, ctl |-> NoController,
                                               audio |-> buffer]},
                           !.drains = IF m.env.log
                                      THEN Append(@, [sock |-> s, audio |-> buffer])
                                      ELSE @]

\* processCompleteAudio from the return of toFile to the await of the
\* transcription (lines 357-378)
CompleteFilePrepared(m, f) ==
  LET sttController == m.nextId.ctl
      m1 == [m EXCEPT !.lastInputSource = Put(@, f.sock, "voice"),
                      !.nextId = [@ EXCEPT !.ctl = @ + 1],
                      !.finals = (@ \ {f}) \cup {[f EXCEPT !.ctl = sttController]}]
  IN  RegisterStt(m1, f.sock, sttController)

\* The transcription of a finalization has arrived (lines 380-400)
CompleteTranscribed(m, f, text, language) ==
  LET m1 == NoteLanguage([m EXCEPT !.finals = @ \ {f}], f.sock, language)
      m2 == triggerChatGPTWithWait(m1, f.sock, text, FALSE, "final")
  IN  IF StartedTurn(m1, m2) THEN m2 ELSE FinallyComplete(m2, f.sock)

\* The catch of processCompleteAudio without the finally block: the
\* processing flag stays
CompleteFailedKeepingGuard(m, f, cause) ==
  Emit([m EXCEPT !.finals = @ \ {f}],
       Ev(f.sock, "error", <<>>, FALSE, "Failed to transcribe audio", 0, cause))

\* The catch of processCompleteAudio with a finally block that clears the
\* processing flag of every socket
CompleteFailedClearingGuards(m, f, cause) ==
  [Emit([m EXCEPT !.finals = @ \ {f}],
        Ev(f.sock, "error", <<>>, FALSE, "Failed to transcribe audio", 0, cause))
     EXCEPT !.processingSockets = {}]

\* The transcription of a finalization was rejected (lines 402-408)
CompleteFailed(m, f, cause) ==
  FinallyComplete(
    Emit([m EXCEPT !.finals = @ \ {f}],
         Ev(f.sock, "error", <<>>, FALSE, "Failed to transcribe audio", 0, cause)),
    f.sock)

\* schedulePartialTranscription arming a timer without clearing the one
\* it armed before
scheduleWithoutClearing(m, s) ==
  LET timer == m.nextId.timer
  IN  [m EXCEPT !.armedSttTimers = @ \cup {[sock |-> s, id |-> timer]},
                !.sttDebounceTimers = Put(@, s, timer),
                !.nextId = [@ EXCEPT !.timer = @ + 1]]

\* schedulePartialTranscription, the scheduling (lines 421-424 and 474-476)
schedulePartialTranscription(m, s) ==
  LET cleared == IF Has(m.sttDebounceTimers, s)
                 THEN m.armedSttTimers \ {[sock |-> s, id |-> m.sttDebounceTimers[s]]}
                 ELSE m.armedSttTimers
      timer == m.nextId.timer
  IN  [m EXCEPT !.armedSttTimers = cleared \cup {[sock |-> s, id |-> timer]},
                !.sttDebounceTimers = Put(@, s, timer),
                !.nextId = [@ EXCEPT !.timer = @ + 1]]

\* The finally block of the debounce callback (lines 471-473)
FinallyPartial(m, s) == [m EXCEPT !.sttInProgress = @ \ {s}]

\* The debounce callback taking the audio out of the buffer, as a
\* finalization does, when it starts a transcription
DebounceCallbackTakingBuffer(m, tm) ==
  LET s == tm.sock
      m0 == [m EXCEPT !.armedSttTimers = @ \ {tm}]
  IN  IF s \in m.sttInProgress THEN FinallyPartial(m0, s)
      ELSE IF ~Has(m.audioBuffers, s) \/ m.audioBuffers[s] = <<>> THEN FinallyPartial(m0, s)
      ELSE IF TotalBytes(m.audioBuffers[s]) < minPartialBytes THEN FinallyPartial(m0, s)
      ELSE LET sttController == m.nextId.ctl
               m1 == [m0 EXCEPT !.sttInProgress = @ \cup {s},
                                !.audioBuffers = Put(@, s, <<>>),
                                !.nextId = [@ EXCEPT !.ctl = @ + 1],
                                !.partials = @ \cup {[sock |-> s, ctl |-> sttController,
                                                      audio |-> m.audioBuffers[s]]}]
           IN  RegisterStt(m1, s, sttController)

\* The debounce callback up to the await of the transcription (lines 425-447).
\* It runs from a timer: toFile of a Buffer in memory settles in the
\* microtasks that follow the callback, before any other callback runs.
DebounceCallback(m, tm) ==
  LET s == tm.sock
      m0 == [m EXCEPT !.armedSttTimers = @ \ {tm}]
  IN  IF s \in m.sttInProgress THEN FinallyPartial(m0, s)
      ELSE IF ~Has(m.audioBuffers, s) \/ m.audioBuffers[s] = <<>> THEN FinallyPartial(m0, s)
      ELSE IF TotalBytes(m.audioBuffers[s]) < minPartialBytes THEN FinallyPartial(m0, s)
      ELSE LET sttController == m.nextId.ctl
               m1 == [m0 EXCEPT !.sttInProgress = @ \cup {s},
                                !.nextId = [@ EXCEPT !.ctl = @ + 1],
                                !.partials = @ \cup {[sock |-> s, ctl |-> sttController,
                                                      audio |-> m.audioBuffers[s]]}]
           IN  RegisterStt(m1, s, sttController)

\* PartialTranscribed comparing the length of the transcript as it came, not
\* trimmed, with the threshold
PartialTranscribedTestingUntrimmed(m, p, text, language) ==
  LET s == p.sock
      m1 == Emit([m EXCEPT !.partials = @ \ {p}],
                 Ev(s, "speech-result", text, FALSE, "", 0, ""))
      m2 == NoteLanguage(m1, s, language)
      partialText == Trim(text)
      m3 == IF partialText # <<>> /\ Len(text) >= minPartialChars
            THEN triggerChatGPTWithWait([m2 EXCEPT !.lastInputSource = Put(@, s, "voice")],
                                        s, partialText, TRUE, "partial")
            ELSE m2
  IN  FinallyPartial(m3, s)

\* The partial transcription has arrived (lines 449-468)
PartialTranscribed(m, p, text, language) ==
  LET s == p.sock
      m1 == Emit([m EXCEPT !.partials = @ \ {p}],
                 Ev(s, "speech-result", text, FALSE, "", 0, ""))
      m2 == NoteLanguage(m1, s, language)
      partialText == Trim(text)
      m3 == IF partialText # <<>> /\ Len(partialText) >= minPartialChars
            THEN triggerChatGPTWithWait([m2 EXCEPT !.lastInputSource = Put(@, s, "voice")],
                                        s, partialText, TRUE, "partial")
            ELSE m2
  IN  FinallyPartial(m3, s)

\* The catch of the debounce callback without the finally block: the
\* in-progress mark stays
PartialFailedKeepingMark(m, p) == [m EXCEPT !.partials = @ \ {p}]

\* The partial transcription was rejected (lines 469-473)
PartialFailed(m, p) == FinallyPartial([m EXCEPT !.partials = @ \ {p}], p.sock)

\* socket.on('audio-stream') (lines 208-242)
OnAudioStream(m, s, len, isFinal) ==
  LET chunk == [id |-> m.nextId.chunk, len |-> len]
      m0 == [m EXCEPT !.nextId = [@ EXCEPT !.chunk = @ + 1]]
      m1 == IF Has(m.audioBuffers, s)
            THEN [m0 EXCEPT !.audioBuffers = Put(@, s, TrimBuffer(Append(m.audioBuffers[s], chunk)))]
            ELSE m0
  IN  IF isFinal THEN processCompleteAudio(m1, s) ELSE schedulePartialTranscription(m1, s)

\* socket.on('start-recording') (lines 289-298)
OnStartRecording(m, s) == [m EXCEPT !.audioBuffers = Put(@, s, <<>>)]

(***************************************************************************)
(* Actions.  env bounds the environment: env.budget is the number of       *)
(* events it may still cause on its own (a message of a client, a failure  *)
(* of a service), the other fields are the sets its values are drawn from  *)
(* and the number of parts of a stream.                                    *)
(***************************************************************************)
Spend == env' = [env EXCEPT !.budget = @ - 1]

\* The finalizations that await toFile (line 357).  toFile of a Buffer in
\* memory settles in microtasks, which run before the next timer or answer
\* of a service, and after the handlers of the events that socket.io
\* decoded together with the final chunk and dispatches in the same tick.
FilePending == {f \in finals : f.ctl = NoController}

\* A timer or an answer of a service is not run while toFile is awaited
NewTick == FilePending = {}

\* An event of socket s may be dispatched: no finalization of another socket
\* awaits toFile
OwnTick(s) == \A f \in FilePending : f.sock = s

Connect(s) ==
  /\ NewTick /\ s \in env.sockets /\ s \notin everConnected
  /\ Install(OnConnection(Cur, s))
  /\ UNCHANGED env

TextMessage(s, text) ==
  /\ s \in connected /\ OwnTick(s) /\ env.budget > 0 /\ text \in env.inputs
  /\ Install(OnTextMessage(Cur, s, text))
  /\ Spend

SetLanguage(s, language) ==
  /\ s \in connected /\ OwnTick(s) /\ env.budget > 0
  /\ Install(OnSetLanguage(Cur, s, language))
  /\ Spend

Interrupt(s) ==
  /\ s \in connected /\ OwnTick(s) /\ env.budget > 0
  /\ Install(OnInterrupt(Cur, s))
  /\ Spend

Disconnect(s) ==
  /\ s \in connected /\ OwnTick(s) /\ env.budget > 0
  /\ Install(OnDisconnect(Cur, s))
  /\ Spend

WaitTimerFires(s) ==
  /\ NewTick /\ waitTimers[s] > 0
  /\ Install(WaitTimerCallback(Cur, s))
  /\ UNCHANGED env

\* openai.chat.completions.create resolves with the stream
CreateResolves(t) ==
  /\ NewTick /\ t \in turns /\ t.pc = "create"
  /\ Install(StreamOpened(Cur, t))
  /\ UNCHANGED env

\* The stream yields a part whose delta content is token (<<>>: none)
StreamYields(t, token) ==
  /\ NewTick /\ t \in turns /\ t.pc = "stream" /\ env.parts > 0
  /\ token \in env.tokens \cup {<<>>}
  /\ Install(StreamPart(Cur, t, token))
  /\ env' = [env EXCEPT !.parts = @ - 1]

StreamEnds(t) ==
  /\ NewTick /\ t \in turns /\ t.pc = "stream"
  /\ Install(StreamDone(Cur, t))
  /\ UNCHANGED env

\* The chat call or its stream throws an error of the service
ChatFails(t) ==
  /\ NewTick /\ t \in turns /\ t.pc \in {"create", "stream"} /\ env.budget > 0
  /\ Install(CatchChatGPTError(Cur, t, "failure"))
  /\ Spend

\* The chat call or its stream throws because its controller was aborted
ChatAborts(t) ==
  /\ NewTick /\ t \in turns /\ t.pc \in {"create", "stream"} /\ t.ctl \in abortedControllers
  /\ Install(CatchChatGPTError(Cur, t, "abort"))
  /\ UNCHANGED env

SpeechSucceeds(t) ==
  /\ NewTick /\ t \in turns /\ t.pc = "tts"
  /\ Install(SpeechSettled(Cur, t, TRUE))
  /\ UNCHANGED env

SpeechFails(t) ==
  /\ NewTick /\ t \in turns /\ t.pc = "tts" /\ env.budget > 0
  /\ Install(SpeechSettled(Cur, t, FALSE))
  /\ Spend

AudioStream(s, len, isFinal) ==
  /\ s \in connected /\ OwnTick(s) /\ env.budget > 0 /\ len \in env.sizes
  /\ Install(OnAudioStream(Cur, s, len, isFinal))
  /\ Spend

StartRecording(s) ==
  /\ s \in connected /\ OwnTick(s) /\ env.budget > 0
  /\ Install(OnStartRecording(Cur, s))
  /\ Spend

DebounceTimerFires(tm) ==
  /\ NewTick /\ tm \in armedSttTimers
  /\ Install(DebounceCallback(Cur, tm))
  /\ UNCHANGED env

\* toFile returns in the finalization that awaited it first
CompleteFileReady(f) ==
  /\ f \in FilePending
  /\ \A g \in FilePending : Head(f.audio).id <= Head(g.audio).id
  /\ Install(CompleteFilePrepared(Cur, f))
  /\ UNCHANGED env

CompleteTranscriptionArrives(f, text, language) ==
  /\ NewTick /\ f \in finals /\ text \in env.transcripts /\ language \in env.languages
  /\ Install(CompleteTranscribed(Cur, f, text, language))
  /\ UNCHANGED env

CompleteTranscriptionFails(f) ==
  /\ NewTick /\ f \in finals /\ env.budget > 0
  /\ Install(CompleteFailed(Cur, f, "failure"))
  /\ Spend

CompleteTranscriptionAborts(f) ==
  /\ NewTick /\ f \in finals /\ f.ctl \in abortedControllers
  /\ Install(CompleteFailed(Cur, f, "abort"))
  /\ UNCHANGED env

PartialTranscriptionArrives(p, text, language) ==
  /\ NewTick /\ p \in partials /\ text \in env.transcripts /\ language \in env.languages
  /\ Install(PartialTranscribed(Cur, p, text, language))
  /\ UNCHANGED env

PartialTranscriptionFails(p) ==
  /\ NewTick /\ p \in partials /\ env.budget > 0
  /\ Install(PartialFailed(Cur, p))
  /\ Spend

PartialTranscriptionAborts(p) ==
  /\ NewTick /\ p \in partials /\ p.ctl \in abortedControllers
  /\ Install(PartialFailed(Cur, p))
  /\ UNCHANGED env

(***************************************************************************)
(* The inputs of the environment.                                          *)
(***************************************************************************)
\* A text, a text to trim, and a text of white space only
TextInputs == {<<"a">>, <<" ", "b">>, <<"\t", "\n", VerticalTab, "U+00A0">>}

\* The second token ends a sentence and begins one of white space only
Tokens == {<<"a">>, <<"b", ".", "\n">>}

ChunkSizes == {9000}

\* Chunks that reach minPartialBytes alone, in two, or fall one byte short
SmallChunkSizes == {4499, 4500, 9000}

LongTranscript == <<" ", "h", "e", "l", "l", "o", " ", "y", "o", "u">>

\* Transcripts of 7 and of 8 characters once trimmed
ShortTranscript == <<" ", "h", "e", "l", "l", "o", " ", "y">>

EdgeTranscript == <<" ", "h", "e", "l", "l", "o", " ", "y", "o">>

Transcripts == {<<>>, <<"h", "i">>, ShortTranscript, EdgeTranscript, LongTranscript}

Languages == {"", "fr"}

\* What a client sends as data.language: nothing, blanks, 'auto', a code
LanguageInputs == {<<>>, <<VerticalTab>>, <<"a", "u", "t", "o">>, <<"\t", "d", "e", "\n">>}

(***************************************************************************)
(* The state when the server starts listening: no socket is connected.     *)
(***************************************************************************)
Start ==
  /\ connected = {} /\ everConnected = {}
  /\ audioBuffers = EmptyMap /\ processingSockets = {}
  /\ sttDebounceTimers = EmptyMap /\ sttInProgress = {}
  /\ conversationHistory = EmptyMap /\ conversationPreferences = EmptyMap
  /\ lastInputSource = EmptyMap /\ controllersBySocket = EmptyMap
  /\ chatGPTCallStates = {}
  /\ stateObjs = [s \in SocketIds |-> [isWaiting |-> FALSE, pendingInput |-> Null]]
  /\ conversationVersions = EmptyMap
  /\ abortedControllers = {}
  /\ waitTimers = [s \in SocketIds |-> 0]
  /\ armedSttTimers = {} /\ turns = {} /\ finals = {} /\ partials = {}
  /\ nextId = [turn |-> 1, ctl |-> 1, timer |-> 1, chunk |-> 1]
  /\ events = <<>> /\ calls = <<>>
  /\ burst = [s \in SocketIds |-> NoBurst]
  /\ checks = {} /\ finished = EmptyMap /\ drains = <<>>

NoEnv ==
  [sockets |-> {"s1"}, log |-> FALSE, bursts |-> FALSE, budget |-> 0,
   inputs |-> {}, parts |-> 0, tokens |-> {}, sizes |-> {}, transcripts |-> {},
   languages |-> {}]

(***************************************************************************)
(* SpecBurst: bursts of text messages to one session, whose turns run to   *)
(* their end or fail.                                                      *)
(***************************************************************************)
InitBurst ==
  /\ Start
  /\ env = [NoEnv EXCEPT !.bursts = TRUE, !.budget = BurstEvents, !.inputs = TextInputs,
                         !.parts = TurnParts, !.tokens = {<<"a">>}]

NextBurst ==
  \/ \E s \in SocketIds : Connect(s)
  \/ \E s \in SocketIds : \E text \in TextInputs : TextMessage(s, text)
  \/ \E s \in SocketIds : WaitTimerFires(s)
  \/ \E t \in turns : CreateResolves(t)
  \/ \E t \in turns : \E token \in Tokens \cup {<<>>} : StreamYields(t, token)
  \/ \E t \in turns : StreamEnds(t)
  \/ \E t \in turns : ChatFails(t)
  \/ \E t \in turns : SpeechSucceeds(t)

SpecBurst == InitBurst /\ [][NextBurst]_vars

\* C1: a burst of normal-mode triggers that finds the coalescer idle makes
\* one call with its first input in the step of the first trigger, no other
\* call while the wait window is open, and, when the window's timer fires,
\* one call with the last input of the burst if the burst had two inputs or
\* more: an input between the first and the last is never passed on.
C1_BurstCoalesced ==
  \A s \in SocketIds :
    LET b == burst[s] IN
      /\ b.phase = "open" => b.calls = <<[input |-> b.inputs[1], via |-> "sync"]>>
      /\ b.phase = "closed" /\ Len(b.inputs) >= 2 =>
           b.calls = <<[input |-> b.inputs[1], via |-> "sync"],
                       [input |-> b.inputs[Len(b.inputs)], via |-> "timer"]>>

\* A burst of three inputs whose window has elapsed, the second input being
\* neither the first nor the last
C1_Witness ==
  \E s \in SocketIds :
    /\ burst[s].phase = "closed"
    /\ Len(burst[s].inputs) = 3
    /\ burst[s].inputs[2] # burst[s].inputs[1]
    /\ burst[s].inputs[2] # burst[s].inputs[3]
    /\ Len(burst[s].calls) = 2

(***************************************************************************)
(* SpecTriggers: every source of triggers of one session (a text message,  *)
(* final and non-final audio chunks and their transcriptions, the timers)  *)
(* with interrupts.                                                        *)
(***************************************************************************)
InitTriggers ==
  /\ Start
  /\ env = [NoEnv EXCEPT !.budget = TrigEvents, !.inputs = {<<"a">>},
                         !.parts = TurnParts, !.tokens = {<<"a">>}, !.sizes = ChunkSizes,
                         !.transcripts = {LongTranscript}, !.languages = {""}]

NextTriggers ==
  \/ \E s \in SocketIds : Connect(s)
  \/ \E s \in SocketIds : \E text \in TextInputs : TextMessage(s, text)
  \/ \E s \in SocketIds : Interrupt(s)
  \/ \E s \in SocketIds : WaitTimerFires(s)
  \/ \E t \in turns : CreateResolves(t)
  \/ \E t \in turns : \E token \in Tokens \cup {<<>>} : StreamYields(t, token)
  \/ \E t \in turns : StreamEnds(t)
  \/ \E t \in turns : ChatAborts(t)
  \/ \E t \in turns : SpeechSucceeds(t)
  \/ \E s \in SocketIds : \E len \in ChunkSizes : \E isFinal \in BOOLEAN :
       AudioStream(s, len, isFinal)
  \/ \E f \in finals : CompleteFileReady(f)
  \/ \E tm \in armedSttTimers : DebounceTimerFires(tm)
  \/ \E f \in finals : \E text \in Transcripts : \E language \in Languages :
       CompleteTranscriptionArrives(f, text, language)
  \/ \E f \in finals : CompleteTranscriptionAborts(f)
  \/ \E p \in partials : \E text \in Transcripts : \E language \in Languages :
       PartialTranscriptionArrives(p, text, language)
  \/ \E p \in partials : PartialTranscriptionAborts(p)

SpecTriggers == InitTriggers /\ [][NextTriggers]_vars

\* C2: at most one invocation of processWithChatGPT is in flight per socket.
C2_OneCallInFlight ==
  \A s \in SocketIds : Cardinality({t \in turns : t.sock = s}) <= 1

\* A call in flight that an interrupt has hit while a later input is pending
C2_Witness ==
  \E t \in turns : t.interrupted /\ stateObjs[t.sock].pendingInput # Null

(***************************************************************************)
(* SpecTurn: the turns of one session in full (replies of several parts    *)
(* and sentences, failures of the chat and speech services) with           *)
(* interrupts and the disconnect; the events are recorded.                 *)
(***************************************************************************)
InitTurn ==
  /\ Start
  /\ env = [NoEnv EXCEPT !.log = TRUE, !.budget = TurnEvents, !.inputs = {<<" ", "b">>},
                         !.parts = TurnParts, !.tokens = Tokens]

NextTurn ==
  \/ \E s \in SocketIds : Connect(s)
  \/ \E s \in SocketIds : \E text \in TextInputs : TextMessage(s, text)
  \/ \E s \in SocketIds : Interrupt(s)
  \/ \E s \in SocketIds : Disconnect(s)
  \/ \E s \in SocketIds : WaitTimerFires(s)
  \/ \E t \in turns : CreateResolves(t)
  \/ \E t \in turns : \E token \in Tokens \cup {<<>>} : StreamYields(t, token)
  \/ \E t \in turns : StreamEnds(t)
  \/ \E t \in turns : ChatFails(t)
  \/ \E t \in turns : ChatAborts(t)
  \/ \E t \in turns : SpeechSucceeds(t)
  \/ \E t \in turns : SpeechFails(t)

SpecTurn == InitTurn /\ [][NextTurn]_vars

\* The positions of the log
Positions == 1..Len(events)

\* The event at i is the typing(false) that the interrupt handler emits
IsInterruptAt(i) == events[i].ev = "ai-typing" /\ events[i].msg = "interrupt"

\* Turn k had begun before position i of the log
BegunBefore(k, i) == \E g \in 1..(i - 1) : events[g].turn = k

\* C3: once an interrupt has been handled for a session, the stream consumer
\* in flight for that session reports stale at its next staleness check, and
\* no token event of that turn follows the interrupt in the log.
C3_StaleAfterInterrupt ==
  /\ \A c \in checks : c.interrupted => c.stale
  /\ \A i \in Positions : \A j \in Positions :
        (i < j /\ IsInterruptAt(i) /\ events[j].ev = "ai-token"
           /\ events[j].sock = events[i].sock)
        => ~BegunBefore(events[j].turn, i)

\* C4: when an interrupt is handled while the units of a reply are being
\* synthesized (after its ai-message-done), no audio chunk is emitted for a
\* unit whose synthesis began after the interrupt; the synthesis of a unit
\* begins right after the previous audio chunk of the turn (or, for the
\* first unit, right after ai-message-done).
C4_NoChunkAfterInterrupt ==
  \A d \in Positions : \A i \in Positions : \A h \in Positions : \A j \in Positions :
    (d < i /\ i < h /\ h < j
       /\ events[d].ev = "ai-message-done"
       /\ IsInterruptAt(i) /\ events[i].sock = events[d].sock
       /\ events[h].ev = "ai-audio-chunk" /\ events[h].turn = events[d].turn)
    => ~(events[j].ev = "ai-audio-chunk" /\ events[j].turn = events[d].turn)

\* C9: after the disconnect of a session has been handled, no wait timer
\* and no debounce timer of the session is armed and no abort controller of
\* the session is registered.
C9_DisconnectClearsAll ==
  \A s \in everConnected \ connected :
    /\ waitTimers[s] = 0
    /\ \A tm \in armedSttTimers : tm.sock # s
    /\ ~Has(sttDebounceTimers, s)
    /\ Controllers(Cur, s) = NoControllers

\* C10: no error event is emitted because an interrupt aborted a call (the
\* rejection of the aborted call reaches no emit of error).
C10_SilentAbandon ==
  \A i \in Positions : events[i].ev = "error" => events[i].cause # "abort"

\* The events of turn k as logged, each as its name and text (ai-typing
\* split by its flag)
Sig(e) ==
  <<IF e.ev = "ai-typing" THEN (IF e.flag THEN "typing(true)" ELSE "typing(false)")
    ELSE e.ev,
    e.text>>

EventsOfTurn(k) ==
  LET es == SelectSeq(events, LAMBDA e : e.turn = k)
  IN  [i \in 1..Len(es) |-> Sig(es[i])]

\* The parts of the stream of turn k that carried content
ContentTokens(k) == SelectSeq(finished[k].streamed, LAMBDA token : token # <<>>)

\* What a turn with input, tokens in stream order, emits when nothing
\* interrupts it and the chat call does not fail
ExpectedEvents(input, tokens) ==
  LET text == Flatten(tokens)
      units == SpokenUnits(SplitSentences(text))
  IN  << <<"message-received", input>>, <<"typing(true)", <<>>>>,
         <<"ai-message-start", <<>>>> >>
      \o [i \in 1..Len(tokens) |-> <<"ai-token", tokens[i]>>]
      \o << <<"typing(false)", <<>>>>, <<"ai-message-done", text>> >>
      \o [i \in 1..Len(units) |-> <<"ai-audio-chunk", units[i]>>]
      \o << <<"ai-audio-done", <<>>>>, <<"ai-response", text>> >>

\* The turns that returned after the speech, not hit by an interrupt
CompleteTurns ==
  {k \in DOMAIN finished : finished[k].outcome = "complete" /\ ~finished[k].interrupted}

\* C5 (amended): for a turn neither interrupted nor failed the events are, in
\* this order: message-received with the trimmed input, typing(true),
\* ai-message-start, one token event per content-carrying part of the stream
\* in stream order (zero or more), typing(false), ai-message-done whose text
\* is the concatenation of the token texts, one audio chunk per non-blank
\* sentence in sentence order, ai-audio-done, ai-response.
C5_TurnEvents ==
  \A k \in CompleteTurns :
    /\ \E raw \in TextInputs : finished[k].input = Trim(raw) /\ Trim(raw) # <<>>
    /\ EventsOfTurn(k) = ExpectedEvents(finished[k].input, ContentTokens(k))

\* A complete turn out of the input " b" whose stream carried two tokens
\* making two sentences
C5_Witness ==
  \E k \in CompleteTurns :
    /\ finished[k].input = <<"b">>
    /\ Len(ContentTokens(k)) = 2
    /\ Len(SpokenUnits(SplitSentences(Flatten(ContentTokens(k))))) = 2

\* C5 as stated: the same with one or more token events in every such turn
C5_AtLeastOneToken ==
  /\ C5_TurnEvents
  /\ \A k \in CompleteTurns : Len(ContentTokens(k)) >= 1

(***************************************************************************)
(* SpecHistory: one session through enough turns, complete or failed, to   *)
(* fill its history; the replies are empty.                                *)
(***************************************************************************)
InitHistory ==
  /\ Start
  /\ env = [NoEnv EXCEPT !.budget = HistEvents, !.inputs = {<<"a">>}]

NextHistory ==
  \/ \E s \in SocketIds : Connect(s)
  \/ \E s \in SocketIds : \E text \in TextInputs : TextMessage(s, text)
  \/ \E s \in SocketIds : WaitTimerFires(s)
  \/ \E t \in turns : CreateResolves(t)
  \/ \E t \in turns : StreamEnds(t)
  \/ \E t \in turns : ChatFails(t)

SpecHistory == InitHistory /\ [][NextHistory]_vars

\* C6: between the turns of a session its stored history holds at most
\* maxMessages messages, and the history passed to the chat call (the
\* messages after the system message) is within the same bound.
C6_HistoryBounded ==
  /\ \A s \in DOMAIN conversationHistory :
       TurnsOf(Cur, s) = {} => Len(conversationHistory[s]) <= maxMessages
  /\ \A t \in turns : Len(t.messages) - 1 <= maxMessages

(***************************************************************************)
(* SpecAudio: the audio of one session, chunk by chunk, with the           *)
(* transcriptions and the turns they trigger; the replies are empty.       *)
(***************************************************************************)
InitAudio ==
  /\ Start
  /\ env = [NoEnv EXCEPT !.budget = AudioEvents, !.sizes = ChunkSizes,
                         !.transcripts = {<<>>, LongTranscript}, !.languages = {""}]

NextAudio ==
  \/ \E s \in SocketIds : Connect(s)
  \/ \E s \in SocketIds : \E len \in ChunkSizes : \E isFinal \in BOOLEAN :
       AudioStream(s, len, isFinal)
  \/ \E f \in finals : CompleteFileReady(f)
  \/ \E s \in SocketIds : StartRecording(s)
  \/ \E tm \in armedSttTimers : DebounceTimerFires(tm)
  \/ \E f \in finals : \E text \in Transcripts : \E language \in Languages :
       CompleteTranscriptionArrives(f, text, language)
  \/ \E f \in finals : CompleteTranscriptionFails(f)
  \/ \E p \in partials : \E text \in Transcripts : \E language \in Languages :
       PartialTranscriptionArrives(p, text, language)
  \/ \E p \in partials : PartialTranscriptionFails(p)
  \/ \E s \in SocketIds : WaitTimerFires(s)
  \/ \E t \in turns : CreateResolves(t)
  \/ \E t \in turns : StreamEnds(t)

SpecAudio == InitAudio /\ [][NextAudio]_vars

\* The finalizations of s in progress: those awaiting their transcription
\* and those awaiting the turn they triggered
FinalizationsInProgress(s) ==
  Cardinality({f \in finals : f.sock = s})
    + Cardinality({t \in turns : t.sock = s /\ t.caller = "final"})

\* C7: at most one finalization (drain, transcription and resulting trigger)
\* is in progress per session at any time, however many final chunks arrive
\* while one is in progress.
C7_OneFinalization == \A s \in SocketIds : FinalizationsInProgress(s) <= 1

\* C8: at most one partial transcription is in flight per session at any
\* time, however many debounce timers fire while one is in progress.
C8_OnePartial == \A s \in SocketIds : Cardinality({p \in partials : p.sock = s}) <= 1

\* Turn k has emitted ai-message-done before position i of the log
DoneBefore(k, i) ==
  \E g \in 1..(i - 1) : events[g].turn = k /\ events[g].ev = "ai-message-done"

\* C11: a turn whose chat call or stream is in progress when an interrupt is
\* handled (begun, its ai-message-done not yet emitted) emits afterwards no
\* ai-message-start, ai-message-done, ai-audio-chunk or ai-response; the
\* assistant message is appended to the history in the step that emits
\* ai-message-done.
C11_NoOutputOnceSuperseded ==
  \A i \in Positions : \A j \in Positions :
    (i < j /\ IsInterruptAt(i) /\ events[j].sock = events[i].sock
       /\ BegunBefore(events[j].turn, i) /\ ~DoneBefore(events[j].turn, i))
    => events[j].ev \notin {"ai-message-start", "ai-message-done",
                            "ai-audio-chunk", "ai-response"}

(***************************************************************************)
(* SpecBuffer: the audio buffer of one session under large chunks; the     *)
(* transcriptions find no speech, so no turn starts.                       *)
(***************************************************************************)
\* Sizes of chunks: two or three of the smaller ones exceed maxBytes, the
\* largest exceeds it alone.  The size is that of Buffer.from(audioChunk)
\* (line 219), which the handler does not bound: an array-like audioChunk
\* of a given length makes a chunk of that many bytes.
LargeChunkSizes == {500000, 800000, 1500001}

InitBuffer ==
  /\ Start
  /\ env = [NoEnv EXCEPT !.budget = AudioEvents, !.sizes = LargeChunkSizes,
                         !.transcripts = {<<>>}, !.languages = {""}]

NextBuffer ==
  \/ \E s \in SocketIds : Connect(s)
  \/ \E s \in SocketIds : \E len \in LargeChunkSizes : \E isFinal \in BOOLEAN :
       AudioStream(s, len, isFinal)
  \/ \E f \in finals : CompleteFileReady(f)
  \/ \E s \in SocketIds : StartRecording(s)
  \/ \E tm \in armedSttTimers : DebounceTimerFires(tm)
  \/ \E f \in finals : \E text \in Transcripts : \E language \in Languages :
       CompleteTranscriptionArrives(f, text, language)
  \/ \E f \in finals : CompleteTranscriptionFails(f)
  \/ \E p \in partials : \E text \in Transcripts : \E language \in Languages :
       PartialTranscriptionArrives(p, text, language)
  \/ \E p \in partials : PartialTranscriptionFails(p)

SpecBuffer == InitBuffer /\ [][NextBuffer]_vars

\* The chunks of a buffer, as a set
ChunksOf(buffer) == {buffer[i] : i \in 1..Len(buffer)}

\* What the handler of a chunk of s holds after the append: the buffer, or
\* the audio the same handler drained from it when the chunk was final
HeldAfterAppend(s) ==
  LET drained == {f \in finals' \ finals : f.sock = s}
  IN  IF drained = {} THEN audioBuffers'[s] ELSE (CHOOSE f \in drained : TRUE).audio

\* C12 as stated: after the handler of an audio chunk has appended it, what
\* is buffered totals at most maxBytes and holds the chunk just appended.
C12_BufferCeiling ==
  [][\A s \in SocketIds : \A len \in LargeChunkSizes : \A isFinal \in BOOLEAN :
       AudioStream(s, len, isFinal) =>
         LET chunk == [id |-> nextId.chunk, len |-> len]
             held == HeldAfterAppend(s)
         IN  /\ TotalBytes(held) <= maxBytes
             /\ chunk \in ChunksOf(held)]_vars

\* C12, amended: after the handler of an audio chunk has appended it, what
\* is buffered holds the chunk just appended, and totals at most maxBytes
\* unless it is that chunk alone.
C12_BufferCeilingOrNewestAlone ==
  [][\A s \in SocketIds : \A len \in LargeChunkSizes : \A isFinal \in BOOLEAN :
       AudioStream(s, len, isFinal) =>
         LET chunk == [id |-> nextId.chunk, len |-> len]
             held == HeldAfterAppend(s)
         IN  /\ TotalBytes(held) <= maxBytes \/ held = <<chunk>>
             /\ chunk \in ChunksOf(held)]_vars

\* A chunk of 800000 bytes and then one above maxBytes have been received
\* and nothing was drained or cleared: the first was shifted off, the buffer
\* holds the second alone
C12_Witness ==
  \E s \in connected :
    /\ audioBuffers[s] = <<[id |-> 2, len |-> 1500001]>>
    /\ nextId.chunk = 3 /\ nextId.ctl = 1 /\ finals = {}
    /\ env.budget = AudioEvents - 2

(***************************************************************************)
(* SpecDrain: as SpecAudio with the drains recorded, the client sending    *)
(* audio chunks only.                                                      *)
(***************************************************************************)
InitDrain ==
  /\ Start
  /\ env = [NoEnv EXCEPT !.log = TRUE, !.budget = AudioEvents, !.sizes = ChunkSizes,
                         !.transcripts = {<<>>, LongTranscript}, !.languages = {""}]

NextDrain ==
  \/ \E s \in SocketIds : Connect(s)
  \/ \E s \in SocketIds : \E len \in ChunkSizes : \E isFinal \in BOOLEAN :
       AudioStream(s, len, isFinal)
  \/ \E f \in finals : CompleteFileReady(f)
  \/ \E tm \in armedSttTimers : DebounceTimerFires(tm)
  \/ \E f \in finals : \E text \in Transcripts : \E language \in Languages :
       CompleteTranscriptionArrives(f, text, language)
  \/ \E f \in finals : CompleteTranscriptionFails(f)
  \/ \E p \in partials : \E text \in Transcripts : \E language \in Languages :
       PartialTranscriptionArrives(p, text, language)
  \/ \E p \in partials : PartialTranscriptionFails(p)
  \/ \E s \in SocketIds : WaitTimerFires(s)
  \/ \E t \in turns : CreateResolves(t)
  \/ \E t \in turns : StreamEnds(t)

SpecDrain == InitDrain /\ [][NextDrain]_vars

\* The positions at which the chunk of id c is in a sequence of chunks
PlacesIn(c, chunks) == {i \in 1..Len(chunks) : chunks[i].id = c}

\* The number of places holding chunk c: in the buffer of s and in the audio
\* of the finalizations of s so far
Holdings(c, s) ==
  Cardinality(PlacesIn(c, audioBuffers[s]))
    + Cardinality({<<d, i>> \in (1..Len(drains)) \X (1..nextId.chunk) :
                     /\ drains[d].sock = s
                     /\ i \in PlacesIn(c, drains[d].audio)})

\* C13: every chunk appended for a session is in exactly one place, the
\* buffer of the session or the audio one finalization took from it: a chunk
\* appended after a drain stays in the buffer, and no chunk is in the audio
\* of two finalizations.
C13_DrainAtomic ==
  \A s \in connected : \A c \in 1..(nextId.chunk - 1) : Holdings(c, s) = 1

\* A chunk appended while a finalization was in progress, then taken by a
\* later finalization
C13_Witness ==
  \E s \in connected : \E d \in 1..Len(drains) : \E f \in finals :
    /\ d >= 2 /\ drains[d].sock = s /\ f.sock = s
    /\ f.audio = drains[1].audio
    /\ Len(drains[d].audio) >= 2

\* The abort controllers registered for s
Registered(m, s) ==
  LET c == Controllers(m, s)
  IN  {c.llm[i] : i \in DOMAIN c.llm} \cup {c.stt[i] : i \in DOMAIN c.stt}
        \cup {c.tts[i] : i \in DOMAIN c.tts}

\* C14: the handler of an interrupt adds exactly 1 to the version of the
\* socket, calls abort on every controller registered for the socket when it
\* runs, and leaves no controller registered for it.
C14_InterruptAborts ==
  [][\A s \in SocketIds :
       Interrupt(s) =>
         /\ Has(conversationVersions', s)
         /\ conversationVersions'[s] = Version(Cur, s) + 1
         /\ Registered(Cur, s) \subseteq abortedControllers'
         /\ Registered(Cur', s) = {}]_vars

\* An interrupt has aborted the llm controller of the turn in flight and the
\* stt controller of a transcription in flight
C14_Witness ==
  \E s \in connected : \E t \in turns : \E f \in finals \cup partials :
    /\ t.sock = s /\ f.sock = s
    /\ Version(Cur, s) = 1
    /\ t.ctl \in abortedControllers /\ f.ctl \in abortedControllers
    /\ Registered(Cur, s) = {}

(***************************************************************************)
(* SpecIsolation: two sessions at once, with text, audio, interrupts,      *)
(* disconnects and failures of the chat, speech and transcription          *)
(* services.  IsoEvents lets one session start a call and see it fail      *)
(* while the other holds a turn, a buffer or a transcription in flight.    *)
(* The transcriptions that arrive find no speech.                          *)
(***************************************************************************)
InitIsolation ==
  /\ Start
  /\ env = [NoEnv EXCEPT !.sockets = SocketIds, !.budget = IsoEvents,
                         !.inputs = {<<"a">>}, !.sizes = ChunkSizes,
                         !.parts = IsoParts, !.tokens = {<<"a">>},
                         !.transcripts = {<<>>}, !.languages = {""}]

NextIsolation ==
  \/ \E s \in SocketIds : Connect(s)
  \/ \E s \in SocketIds : \E text \in TextInputs : TextMessage(s, text)
  \/ \E s \in SocketIds : Interrupt(s)
  \/ \E s \in SocketIds : Disconnect(s)
  \/ \E s \in SocketIds : \E len \in ChunkSizes : \E isFinal \in BOOLEAN :
       AudioStream(s, len, isFinal)
  \/ \E f \in finals : CompleteFileReady(f)
  \/ \E tm \in armedSttTimers : DebounceTimerFires(tm)
  \/ \E f \in finals : CompleteTranscriptionAborts(f)
  \/ \E f \in finals : \E text \in Transcripts : \E language \in Languages :
       CompleteTranscriptionArrives(f, text, language)
  \/ \E f \in finals : CompleteTranscriptionFails(f)
  \/ \E p \in partials : PartialTranscriptionAborts(p)
  \/ \E p \in partials : \E text \in Transcripts : \E language \in Languages :
       PartialTranscriptionArrives(p, text, language)
  \/ \E p \in partials : PartialTranscriptionFails(p)
  \/ \E s \in SocketIds : WaitTimerFires(s)
  \/ \E t \in turns : CreateResolves(t)
  \/ \E t \in turns : \E token \in Tokens : StreamYields(t, token)
  \/ \E t \in turns : StreamEnds(t)
  \/ \E t \in turns : ChatFails(t)
  \/ \E t \in turns : ChatAborts(t)
  \/ \E t \in turns : SpeechSucceeds(t)
  \/ \E t \in turns : SpeechFails(t)

SpecIsolation == InitIsolation /\ [][NextIsolation]_vars

\* The part of a map that belongs to socket o
Entry(map, o) == [k \in DOMAIN map \cap {o} |-> map[k]]

\* Everything the server holds for socket o
SessionOf(m, o) ==
  [version |-> Entry(m.conversationVersions, o),
   controllers |-> Entry(m.controllersBySocket, o),
   aborted |-> m.abortedControllers
                 \cap (Registered(m, o) \cup {t.ctl : t \in TurnsOf(m, o)}
                         \cup {f.ctl : f \in {x \in m.finals \cup m.partials : x.sock = o}}),
   buffer |-> Entry(m.audioBuffers, o),
   history |-> Entry(m.conversationHistory, o),
   preferences |-> Entry(m.conversationPreferences, o),
   hasState |-> o \in m.chatGPTCallStates,
   state |-> m.stateObjs[o],
   waitTimers |-> m.waitTimers[o],
   sttTimers |-> {tm \in m.armedSttTimers : tm.sock = o},
   inputSource |-> Entry(m.lastInputSource, o),
   debounce |-> Entry(m.sttDebounceTimers, o),
   processing |-> o \in m.processingSockets,
   sttInProgress |-> o \in m.sttInProgress,
   turns |-> TurnsOf(m, o),
   finals |-> {f \in m.finals : f.sock = o},
   partials |-> {p \in m.partials : p.sock = o},
   connected |-> o \in m.connected]

\* An interrupt or the disconnect of s, or the failure of an external call
\* made for s
DisturbanceOf(s) ==
  \/ Interrupt(s)
  \/ Disconnect(s)
  \/ \E t \in turns : t.sock = s /\ (ChatFails(t) \/ ChatAborts(t) \/ SpeechFails(t))
  \/ \E f \in finals :
       f.sock = s /\ (CompleteTranscriptionFails(f) \/ CompleteTranscriptionAborts(f))
  \/ \E p \in partials :
       p.sock = s /\ (PartialTranscriptionFails(p) \/ PartialTranscriptionAborts(p))

\* C15: an interrupt, a disconnect or the failure of an external call of one
\* session leaves everything held for every other session unchanged (its
\* version, controllers and which of them are aborted, audio buffer,
\* history, preferences, input source, coalescer state and timers, and the
\* calls in flight for it).
C15_SessionsIsolated ==
  [][\A s \in SocketIds : DisturbanceOf(s) =>
       \A o \in SocketIds \ {s} : SessionOf(Cur', o) = SessionOf(Cur, o)]_vars

\* The chat call of one session has failed (its turn is gone, its history
\* ends with the user message, and nothing interrupted it) while the other
\* session, whose turn began first, still has that turn in flight under its
\* registered controller
C15_Witness ==
  \E s \in connected : \E o \in connected \ {s} : \E t \in turns :
    /\ Version(Cur, s) = 0 /\ TurnsOf(Cur, s) = {}
    /\ Has(conversationHistory, s) /\ Len(conversationHistory[s]) = 1
    /\ conversationHistory[s][1].role = "user"
    /\ waitTimers[s] > 0
    /\ t.sock = o /\ t.ctl = 1 /\ nextId.ctl = 3
    /\ t.ctl \notin abortedControllers /\ ~t.interrupted
    /\ Registered(Cur, o) = {t.ctl}
    /\ env.budget = IsoEvents - 3

(***************************************************************************)
(* SpecBlank: text messages and final audio of one session, with blank     *)
(* texts and transcriptions that find no speech; the events are recorded   *)
(* and the replies are empty.                                              *)
(***************************************************************************)
BlankInputs ==
  {<<>>, <<" ">>, <<"\t", "\n", "\r", "\f">>,
   <<VerticalTab, "U+00A0", "U+1680", "U+FEFF">>, <<"U+2003", "U+2028", "U+3000">>}

InitBlank ==
  /\ Start
  /\ env = [NoEnv EXCEPT !.log = TRUE, !.budget = TrigEvents, !.inputs = TextInputs,
                         !.sizes = ChunkSizes, !.transcripts = {<<>>, <<"h", "i">>},
                         !.languages = {""}]

NextBlank ==
  \/ \E s \in SocketIds : Connect(s)
  \/ \E s \in SocketIds : \E text \in TextInputs : TextMessage(s, text)
  \/ \E s \in SocketIds : \E len \in ChunkSizes : AudioStream(s, len, TRUE)
  \/ \E f \in finals : CompleteFileReady(f)
  \/ \E f \in finals : \E text \in Transcripts : \E language \in Languages :
       CompleteTranscriptionArrives(f, text, language)
  \/ \E s \in SocketIds : WaitTimerFires(s)
  \/ \E t \in turns : CreateResolves(t)
  \/ \E t \in turns : StreamEnds(t)

SpecBlank == InitBlank /\ [][NextBlank]_vars

\* The state after triggerChatGPTWithWait is called with a blank input
AfterBlank(s, blank, queueOnly) ==
  triggerChatGPTWithWait(Cur, s, blank, queueOnly, "text")

\* C16: in every state the server reaches, a trigger with an empty or
\* whitespace-only input, in either mode, starts no call of processWithChatGPT,
\* emits processing-complete and changes nothing else: isWaiting,
\* pendingInput and the armed timers are as they were.
C16_BlankTrigger ==
  \A s \in connected : \A blank \in BlankInputs : \A queueOnly \in BOOLEAN :
    AfterBlank(s, blank, queueOnly) =
      [Cur EXCEPT !.events =
         Append(@, Ev(s, "processing-complete", <<>>, FALSE,
                      "Empty message detected, no processing needed", 0, ""))]

\* A whitespace-only text has just been handled while a turn is in flight
\* and an input is pending
C16_Witness ==
  \E s \in connected :
    /\ events # <<>>
    /\ events[Len(events)].ev = "processing-complete"
    /\ events[Len(events)].sock = s
    /\ TurnsOf(Cur, s) # {}
    /\ stateObjs[s].isWaiting /\ stateObjs[s].pendingInput # Null

\* C17: when the chat call or its stream fails, the client is sent
\* typing(false) and then an error; the stored history is left as it was,
\* ending (while the session lives) with the user message of the failed turn
\* and holding no assistant message for it; and the wait timer of the
\* coalescer is armed, so that a later input is processed.
C17_ChatFailure ==
  [][\A t \in turns :
       ChatFails(t) =>
         /\ events' = events \o
              <<Ev(t.sock, "ai-typing", <<>>, FALSE, "", t.id, ""),
                Ev(t.sock, "error", <<>>, FALSE, "Failed to get AI response", t.id,
                   "failure")>>
         /\ conversationHistory' = conversationHistory
         /\ Has(conversationHistory, t.sock) =>
              LET h == conversationHistory[t.sock]
              IN  h # <<>> /\ h[Len(h)] = [role |-> "user", content |-> t.input]
         /\ waitTimers'[t.sock] = waitTimers[t.sock] + 1
         /\ turns' = turns \ {t}]_vars

\* A turn that failed after streaming a token, followed by a turn of the
\* same session that completed
C17_Witness ==
  \E k \in DOMAIN finished : \E l \in DOMAIN finished :
    /\ k < l /\ finished[k].sock = finished[l].sock
    /\ finished[k].outcome = "failed" /\ ContentTokens(k) # <<>>
    /\ finished[l].outcome = "complete"

\* The audio events of turn k, each as its name, text and flag (for a chunk:
\* whether it carries audio)
AudioEventsOfTurn(k) ==
  SelectSeq(events, LAMBDA e : e.turn = k /\ e.ev \in {"ai-audio-chunk", "ai-audio-done"})

\* C18: a failure of the speech call for one sentence yields the audio chunk
\* of that sentence with no audio and the loop goes on: the next non-blank
\* sentence is synthesized, or, after the last, ai-audio-done is emitted; a
\* turn that has returned from the speech has emitted one chunk per non-blank
\* sentence, in order, whether with audio or not, and then ai-audio-done.
C18_SpeechFailureGoesOn ==
  /\ [][\A t \in turns :
          SpeechFails(t) =>
            LET rest == SpokenUnits(t.todo)
                chunk == Ev(t.sock, "ai-audio-chunk", t.speaking, FALSE, "", t.id, "")
            IN  IF rest = <<>>
                THEN /\ events' = events \o
                          <<chunk, Ev(t.sock, "ai-audio-done", <<>>, FALSE, "", t.id, ""),
                            Ev(t.sock, "ai-response", t.aiResponse, FALSE, "", t.id, "")>>
                     /\ turns' = turns \ {t}
                ELSE /\ events' = Append(events, chunk)
                     /\ \E u \in turns' :
                          /\ u.id = t.id /\ u.pc = "tts"
                          /\ u.speaking = rest[1]
                          /\ SpokenUnits(u.todo) = Tail(rest)]_vars
  /\ [](\A k \in DOMAIN finished :
          finished[k].outcome = "complete" =>
            LET units == SpokenUnits(SplitSentences(Flatten(ContentTokens(k))))
                audio == AudioEventsOfTurn(k)
            IN  /\ Len(audio) = Len(units) + 1
                /\ \A i \in 1..Len(units) :
                     audio[i].ev = "ai-audio-chunk" /\ audio[i].text = units[i]
                /\ audio[Len(audio)].ev = "ai-audio-done")

\* A turn has returned whose first sentence failed to be synthesized and
\* whose second sentence was emitted with audio
C18_Witness ==
  \E k \in DOMAIN finished :
    /\ finished[k].outcome = "complete"
    /\ Len(AudioEventsOfTurn(k)) = 3
    /\ ~AudioEventsOfTurn(k)[1].flag
    /\ AudioEventsOfTurn(k)[2].ev = "ai-audio-chunk" /\ AudioEventsOfTurn(k)[2].flag

\* The positions of ai-audio-done among the audio events of turn k
DonePlaces(k) ==
  {i \in 1..Len(AudioEventsOfTurn(k)) : AudioEventsOfTurn(k)[i].ev = "ai-audio-done"}

\* Turn k has called streamTextToSpeech (it does so right after emitting
\* ai-message-done)
EnteredSpeech(k) ==
  \E i \in Positions : events[i].turn = k /\ events[i].ev = "ai-message-done"

\* C19: for every turn, ai-audio-done is emitted at most once and no audio
\* chunk of the turn follows it; a turn that has called streamTextToSpeech
\* and returned has emitted it exactly once, whatever its sentences, and a
\* turn that never called it has emitted no audio event.
C19_AudioDoneLast ==
  \A k \in 1..(nextId.turn - 1) :
    /\ Cardinality(DonePlaces(k)) <= 1
    /\ DonePlaces(k) \subseteq {Len(AudioEventsOfTurn(k))}
    /\ (k \in DOMAIN finished /\ EnteredSpeech(k)) => Cardinality(DonePlaces(k)) = 1
    /\ ~EnteredSpeech(k) => AudioEventsOfTurn(k) = <<>>

\* A turn with an empty reply has returned with ai-audio-done as its only
\* audio event, and a turn interrupted during the speech has returned with
\* chunks and ai-audio-done
C19_Witness ==
  /\ \E k \in DOMAIN finished :
       /\ finished[k].outcome = "complete" /\ ContentTokens(k) = <<>>
       /\ Len(AudioEventsOfTurn(k)) = 1
  /\ \E l \in DOMAIN finished :
       /\ finished[l].outcome = "complete" /\ finished[l].interrupted
       /\ Len(AudioEventsOfTurn(l)) >= 2

\* A turn of s that an interrupt has superseded has not returned yet
SupersededInFlight(s) == \E t \in turns : t.sock = s /\ t.interrupted

\* C20: a new input of the user that arrives after an interrupt, while the
\* superseded turn has not returned, is not dropped: a text message is
\* passed to processWithChatGPT at once or becomes the pending input that the
\* wait timer replays, and a final audio chunk is taken by a finalization
\* that its handler starts.
C20_NewInputNotDropped ==
  [][\A s \in SocketIds :
       SupersededInFlight(s) =>
         /\ \A text \in TextInputs :
              (Trim(text) # <<>> /\ TextMessage(s, text)) =>
                \/ stateObjs'[s].pendingInput = Some(Trim(text))
                \/ \E t \in turns' \ turns : t.input = Trim(text)
         /\ \A len \in ChunkSizes :
              AudioStream(s, len, TRUE) =>
                \E f \in finals' \ finals :
                  f.sock = s /\ [id |-> nextId.chunk, len |-> len] \in ChunksOf(f.audio)]_vars

\* C21: in every state the coalescer of a live session reaches, isWaiting is
\* true if and only if a wait-window timer is armed for the session.
C21_WaitingIffTimerArmed ==
  \A s \in connected : stateObjs[s].isWaiting <=> waitTimers[s] > 0

(***************************************************************************)
(* SpecQueue: the coalescer of one session under every kind of trigger: a  *)
(* text message, the transcript of a finalization, a partial transcript    *)
(* just under and at the length that feeds it; the replies are empty.      *)
(***************************************************************************)
InitQueue ==
  /\ Start
  /\ env = [NoEnv EXCEPT !.budget = QueueEvents, !.inputs = {<<"a">>}, !.sizes = ChunkSizes,
                         !.transcripts = {ShortTranscript, EdgeTranscript},
                         !.languages = {""}]

NextQueue ==
  \/ \E s \in SocketIds : Connect(s)
  \/ \E s \in SocketIds : \E text \in TextInputs : TextMessage(s, text)
  \/ \E s \in SocketIds : \E len \in ChunkSizes : \E isFinal \in BOOLEAN :
       AudioStream(s, len, isFinal)
  \/ \E f \in finals : CompleteFileReady(f)
  \/ \E tm \in armedSttTimers : DebounceTimerFires(tm)
  \/ \E f \in finals : \E text \in Transcripts : \E language \in Languages :
       CompleteTranscriptionArrives(f, text, language)
  \/ \E p \in partials : \E text \in Transcripts : \E language \in Languages :
       PartialTranscriptionArrives(p, text, language)
  \/ \E s \in SocketIds : WaitTimerFires(s)
  \/ \E t \in turns : CreateResolves(t)
  \/ \E t \in turns : StreamEnds(t)

SpecQueue == InitQueue /\ [][NextQueue]_vars

\* C22: a trigger with a non-blank input that finds the coalescer waiting,
\* or is queue-only, makes its trimmed input the pending input, whatever was
\* pending before; a normal trigger that finds it idle leaves the pending
\* input as it is; and the pending input changes in no other way than by
\* such a trigger or by the fire of a wait timer, which clears it.
C22_PendingIsLatest ==
  [][\A s \in connected :
       LET state == stateObjs[s]
           after == stateObjs'[s].pendingInput
           normal(text) == IF state.isWaiting THEN after = Some(Trim(text))
                           ELSE after = state.pendingInput
       IN  /\ \A text \in TextInputs :
                (TextMessage(s, text) /\ Trim(text) # <<>>) => normal(text)
           /\ \A f \in finals : \A text \in Transcripts : \A language \in Languages :
                (f.sock = s /\ CompleteTranscriptionArrives(f, text, language)
                   /\ Trim(text) # <<>>) => normal(text)
           /\ \A p \in partials : \A text \in Transcripts : \A language \in Languages :
                (p.sock = s /\ PartialTranscriptionArrives(p, text, language)
                   /\ Len(Trim(text)) >= minPartialChars) => after = Some(Trim(text))
           /\ after # state.pendingInput =>
                \/ after = Null /\ WaitTimerFires(s)
                \/ \E text \in TextInputs : TextMessage(s, text) /\ after = Some(Trim(text))
                \/ \E f \in finals : \E text \in Transcripts : \E language \in Languages :
                     /\ f.sock = s /\ CompleteTranscriptionArrives(f, text, language)
                     /\ after = Some(Trim(text))
                \/ \E p \in partials : \E text \in Transcripts : \E language \in Languages :
                     /\ p.sock = s /\ PartialTranscriptionArrives(p, text, language)
                     /\ after = Some(Trim(text))]_vars

\* While the first turn of a text message is in flight a second text message
\* became the pending input, and the transcript of audio that arrived after
\* it has taken its place
C22_Witness ==
  \E s \in connected : \E t \in turns :
    /\ t.sock = s /\ t.caller = "text"
    /\ nextId.turn = 2 /\ nextId.chunk = 2 /\ Version(Cur, s) = 0
    /\ env.budget = QueueEvents - 3
    /\ stateObjs[s].pendingInput = Some(Trim(EdgeTranscript))

(***************************************************************************)
(* SpecLive: SpecQueue with interrupts and the disconnect, under the       *)
(* fairness the runtime gives: an armed wait timer fires and toFile        *)
(* returns.  Whether the chat service answers is left open.                *)
(***************************************************************************)
InitLive ==
  /\ Start
  /\ env = [NoEnv EXCEPT !.budget = LiveEvents, !.inputs = {<<"a">>}, !.sizes = ChunkSizes,
                         !.transcripts = {EdgeTranscript}, !.languages = {""}]

NextLive ==
  \/ \E s \in SocketIds : Connect(s)
  \/ \E s \in SocketIds : \E text \in TextInputs : TextMessage(s, text)
  \/ \E s \in SocketIds : Interrupt(s)
  \/ \E s \in SocketIds : Disconnect(s)
  \/ \E s \in SocketIds : \E len \in ChunkSizes : \E isFinal \in BOOLEAN :
       AudioStream(s, len, isFinal)
  \/ \E f \in finals : CompleteFileReady(f)
  \/ \E tm \in armedSttTimers : DebounceTimerFires(tm)
  \/ \E f \in finals : \E text \in Transcripts : \E language \in Languages :
       CompleteTranscriptionArrives(f, text, language)
  \/ \E p \in partials : \E text \in Transcripts : \E language \in Languages :
       PartialTranscriptionArrives(p, text, language)
  \/ \E s \in SocketIds : WaitTimerFires(s)
  \/ \E t \in turns : CreateResolves(t)
  \/ \E t \in turns : StreamEnds(t)
  \/ \E t \in turns : ChatAborts(t)

\* The enabling conditions of the fair actions (each of them changes vars
\* whenever it is enabled)
WaitTimerArmed(s) == NewTick /\ waitTimers[s] > 0

AwaitsCreate == NewTick /\ \E t \in turns : t.pc = "create"

AwaitsStream == NewTick /\ \E t \in turns : t.pc = "stream"

\* Weak fairness of the fire of the wait timers and of the return of toFile
FairLive ==
  /\ \A s \in SocketIds : WF_vars(WaitTimerFires(s))
  /\ WF_vars(\E f \in finals : CompleteFileReady(f))

SpecLive == InitLive /\ [][NextLive]_vars /\ FairLive

\* C23: under fair firing of the timers a pending input does not stay
\* pending for ever: the pending input of a session is eventually null
\* again; and it becomes null, in a live session, only in the step of a wait
\* timer that passes it to processWithChatGPT (a newer input that took its
\* place before is passed in its stead).
C23_PendingEventuallyServed ==
  /\ \A s \in SocketIds :
       (stateObjs[s].pendingInput # Null) ~> (stateObjs[s].pendingInput = Null)
  /\ [][\A s \in connected :
          (stateObjs[s].pendingInput # Null /\ stateObjs'[s].pendingInput = Null) =>
            /\ WaitTimerFires(s)
            /\ \E t \in turns' \ turns :
                 /\ t.sock = s /\ t.caller = "timer"
                 /\ Some(t.input) = stateObjs[s].pendingInput]_vars

(***************************************************************************)
(* SpecTyping: the turns of SpecTurn under fairness: the chat service      *)
(* answers the call a turn awaits and ends its stream, the speech service  *)
(* answers, and an armed wait timer fires.                                 *)
(***************************************************************************)
InitTyping ==
  /\ Start
  /\ env = [NoEnv EXCEPT !.log = TRUE, !.budget = TypingEvents, !.inputs = {<<" ", "b">>},
                         !.parts = TurnParts, !.tokens = Tokens]

AwaitsSpeech == NewTick /\ \E t \in turns : t.pc = "tts"

\* Weak fairness of the answers of the services (a turn that runs to its
\* end) and of the wait timers: WF_vars(A) as []<>~ENABLED <<A>>_vars \/
\* []<><<A>>_vars with the enabling condition written out
FairTurn ==
  /\ \A s \in SocketIds : []<>(~WaitTimerArmed(s)) \/ []<><<WaitTimerFires(s)>>_vars
  /\ []<>(~AwaitsCreate) \/ []<><<\E t \in turns : CreateResolves(t)>>_vars
  /\ []<>(~AwaitsStream) \/ []<><<\E t \in turns : StreamEnds(t)>>_vars
  /\ []<>(~AwaitsSpeech) \/ []<><<\E t \in turns : SpeechSucceeds(t)>>_vars

SpecTyping == InitTyping /\ [][NextTurn]_vars /\ FairTurn

\* The ids of the turns SpecTyping can start: each takes a text message
TurnIds == 1..TypingEvents

\* The flags of the ai-typing events that turn k emitted, in order
TypingOfTurn(k) ==
  LET es == SelectSeq(events, LAMBDA e : e.turn = k /\ e.ev = "ai-typing")
  IN  [i \in 1..Len(es) |-> es[i].flag]

\* The flags of the ai-typing events sent to s, in order
TypingOfSession(s) ==
  LET es == SelectSeq(events, LAMBDA e : e.sock = s /\ e.ev = "ai-typing")
  IN  [i \in 1..Len(es) |-> es[i].flag]

\* C24: a turn that has emitted typing(true) eventually emits typing(false);
\* a turn that has returned, complete, failed or stale, has emitted
\* typing(true) and then typing(false) and no other typing event; and while
\* no turn of a session is in flight the last typing event sent to the
\* session, if any, is typing(false).
C24_TypingCleared ==
  /\ \A k \in TurnIds :
       (TypingOfTurn(k) # <<>>) ~> (Len(TypingOfTurn(k)) = 2)
  /\ [](\A k \in DOMAIN finished : TypingOfTurn(k) = <<TRUE, FALSE>>)
  /\ [](\A s \in SocketIds :
          (TurnsOf(Cur, s) = {} /\ TypingOfSession(s) # <<>>) =>
            ~TypingOfSession(s)[Len(TypingOfSession(s))])

\* A turn has returned as stale after an interrupt, having emitted
\* typing(true) and typing(false)
C24_Witness ==
  \E k \in DOMAIN finished :
    /\ finished[k].outcome = "stale" /\ finished[k].interrupted
    /\ TypingOfTurn(k) = <<TRUE, FALSE>>
    /\ TypingOfSession(finished[k].sock) = <<TRUE, FALSE, FALSE>>

\* C25: the partial transcript and the final transcript of one utterance
\* (the only audio finalized so far, of which the audio of the partial is a
\* part) that reach the coalescer within one wait window make one call, with
\* the final text.  When the final transcript came first and its turn is in
\* flight, the partial transcript queues nothing; when the partial
\* transcript came first and its timer has not fired, the final transcript
\* takes its place as the pending input and no call starts.
C25_NoDoubleReply ==
  [][\A s \in connected :
       /\ \A p \in partials : \A text \in Transcripts : \A language \in Languages :
            (/\ p.sock = s /\ PartialTranscriptionArrives(p, text, language)
             /\ Len(drains) = 1 /\ ChunksOf(p.audio) \subseteq ChunksOf(drains[1].audio)
             /\ \E t \in turns : t.sock = s /\ t.caller = "final")
            => stateObjs'[s].pendingInput = stateObjs[s].pendingInput
       /\ \A f \in finals : \A text \in Transcripts : \A language \in Languages :
            (/\ f.sock = s /\ CompleteTranscriptionArrives(f, text, language)
             /\ Trim(text) # <<>>
             /\ Len(drains) = 1
             /\ stateObjs[s].pendingInput # Null /\ waitTimers[s] > 0)
            => /\ stateObjs'[s].pendingInput = Some(Trim(text))
               /\ turns' = turns]_vars

\* C26: where a wait timer of a session is armed and an input is pending,
\* and an interrupt is handled next and then the timer fires: the interrupt
\* leaves the timer armed and the input pending, and the turn that the timer
\* starts with that input is superseded (stale at its staleness check: the
\* version differs from the one it holds), so that it produces no reply
\* output.
C26_ReplayAfterInterruptIsStale ==
  \A s \in connected :
    (env.budget > 0 /\ waitTimers[s] > 0 /\ stateObjs[s].pendingInput # Null) =>
      LET m1 == OnInterrupt(Cur, s)
          m2 == WaitTimerCallback(m1, s)
      IN  /\ m1.waitTimers = waitTimers
          /\ m1.stateObjs = stateObjs
          /\ \A t \in m2.turns \ m1.turns : IsStale(m2, t)

\* C27: the step in which a partial transcript arrives starts no call of
\* processWithChatGPT; if the transcript has minPartialChars characters or
\* more once trimmed it becomes the pending input, the coalescer waits, and
\* a wait timer is armed exactly when the coalescer was not waiting; if it is
\* shorter the coalescer and its timers are left as they were.  A call on
\* behalf of a timer starts only in the step of a wait timer, with the input
\* that was pending.
C27_QueueOnlyDefers ==
  [][/\ \A p \in partials : \A text \in Transcripts : \A language \in Languages :
          PartialTranscriptionArrives(p, text, language) =>
            LET s == p.sock
                state == stateObjs[s]
            IN  /\ turns' = turns /\ nextId'.turn = nextId.turn
                /\ IF Len(Trim(text)) >= minPartialChars /\ s \in chatGPTCallStates
                   THEN /\ stateObjs'[s] =
                             [isWaiting |-> TRUE, pendingInput |-> Some(Trim(text))]
                        /\ waitTimers'[s] = waitTimers[s] + (IF state.isWaiting THEN 0 ELSE 1)
                   ELSE stateObjs' = stateObjs /\ waitTimers' = waitTimers
     /\ \A t \in {u \in turns' : u.id >= nextId.turn} :
          /\ t.caller # "partial"
          /\ t.caller = "timer" =>
               /\ WaitTimerFires(t.sock)
               /\ Some(t.input) = stateObjs[t.sock].pendingInput]_vars

\* A partial transcript of minPartialChars characters has been queued by an
\* idle coalescer: it is pending, a timer is armed, and no call has started
C27_Witness ==
  \E s \in connected :
    /\ stateObjs[s] = [isWaiting |-> TRUE, pendingInput |-> Some(Trim(EdgeTranscript))]
    /\ Len(Trim(EdgeTranscript)) = minPartialChars
    /\ waitTimers[s] = 1
    /\ nextId.turn = 1

\* The positions of the log at which turn k emitted the event named ev
PlacesOf(k, ev) == {i \in Positions : events[i].turn = k /\ events[i].ev = ev}

\* C28: every turn emits ai-response at most once, after its ai-audio-done
\* and with the text of its ai-message-done; a turn that returned after the
\* speech has emitted it exactly once, and a turn that returned as stale from
\* the stream, or failed, has emitted none.
C28_OneReply ==
  \A k \in 1..(nextId.turn - 1) :
    LET replies == PlacesOf(k, "ai-response") IN
      /\ Cardinality(replies) <= 1
      /\ \A r \in replies :
           /\ \E d \in PlacesOf(k, "ai-audio-done") : d < r
           /\ \E c \in PlacesOf(k, "ai-message-done") :
                c < r /\ events[c].text = events[r].text
      /\ k \in DOMAIN finished =>
           Cardinality(replies) = (IF finished[k].outcome = "complete" THEN 1 ELSE 0)

\* A turn has returned with a reply of some text, and a later turn of the
\* session has returned as stale
C28_Witness ==
  \E k \in DOMAIN finished : \E l \in DOMAIN finished :
    /\ finished[k].outcome = "complete" /\ ContentTokens(k) # <<>>
    /\ finished[l].outcome = "stale" /\ finished[l].sock = finished[k].sock

\* C29: the version of a session is 0 when the session is connected; while
\* the session lives it never decreases and it changes only in the step of
\* an interrupt of the session; and the version that a turn in flight for a
\* live session finds at its staleness check (the current one) is not lower
\* than the one it holds.
C29_VersionMonotonic ==
  /\ [][\A s \in SocketIds :
          /\ Connect(s) => Has(conversationVersions', s) /\ conversationVersions'[s] = 0
          /\ (s \in connected /\ s \in connected') =>
               /\ Has(conversationVersions, s) /\ Has(conversationVersions', s)
               /\ conversationVersions'[s] >= conversationVersions[s]
               /\ conversationVersions'[s] # conversationVersions[s] => Interrupt(s)]_vars
  /\ [](\A t \in turns :
          t.sock \in connected =>
            /\ t.versionAtStart >= 0
            /\ Version(Cur, t.sock) >= t.versionAtStart)

\* A turn that began at version 1 is in flight at version 2
C29_Witness ==
  \E t \in turns :
    /\ t.sock \in connected /\ t.pc = "stream"
    /\ t.versionAtStart = 1 /\ Version(Cur, t.sock) = 2

(***************************************************************************)
(* SpecDebounce: SpecAudio under fairness: an armed debounce timer that is *)
(* not cleared fires, and toFile returns.                                  *)
(***************************************************************************)
\* The debounce timers armed for s
ArmedFor(s) == {tm \in armedSttTimers : tm.sock = s}

\* Weak fairness of the fire of the debounce timers and of the return of
\* toFile, with the enabling conditions written out as in FairTurn
FairDebounce ==
  /\ []<>(~NewTick \/ armedSttTimers = {})
       \/ []<><<\E tm \in armedSttTimers : DebounceTimerFires(tm)>>_vars
  /\ []<>(FilePending = {}) \/ []<><<\E f \in finals : CompleteFileReady(f)>>_vars

SpecDebounce == InitAudio /\ [][NextAudio]_vars /\ FairDebounce

\* C30: at most one debounce timer is armed per session; the handler of a
\* non-final chunk leaves armed for the session the timer it has just set
\* and no other; a timer that fires is the one the last non-final chunk set,
\* and none is armed for the session after it; and an armed timer does not
\* stay armed for ever.  So a run of non-final chunks, each before the fire
\* of the timer of the chunk before, is followed by one fire, after the last.
C30_LatestWins ==
  /\ [](\A s \in SocketIds : Cardinality(ArmedFor(s)) <= 1)
  /\ [][/\ \A s \in SocketIds : \A len \in ChunkSizes :
             AudioStream(s, len, FALSE) =>
               /\ {tm \in armedSttTimers' : tm.sock = s} = {[sock |-> s, id |-> nextId.timer]}
               /\ sttDebounceTimers'[s] = nextId.timer
        /\ \A tm \in armedSttTimers :
             DebounceTimerFires(tm) =>
               /\ Has(sttDebounceTimers, tm.sock) /\ sttDebounceTimers[tm.sock] = tm.id
               /\ {x \in armedSttTimers' : x.sock = tm.sock} = {}]_vars
  /\ \A s \in SocketIds : (ArmedFor(s) # {}) ~> (ArmedFor(s) = {})

\* Two non-final chunks, the second before the timer of the first fired,
\* and then one fire: the only partial transcription started has both chunks
C30_Witness ==
  \E p \in partials :
    /\ Len(p.audio) = 2
    /\ nextId.timer = 3 /\ nextId.ctl = 2
    /\ ArmedFor(p.sock) = {}

(***************************************************************************)
(* SpecPartial: the partial transcriptions of one session: non-final       *)
(* chunks of sizes around minPartialBytes, the debounce timer, the         *)
(* transcription that answers or fails, and the turn a queued transcript   *)
(* starts; the events are recorded and the replies are empty.              *)
(***************************************************************************)
InitPartial ==
  /\ Start
  /\ env = [NoEnv EXCEPT !.log = TRUE, !.budget = PartialEvents, !.sizes = SmallChunkSizes,
                         !.transcripts = {EdgeTranscript}, !.languages = {""}]

NextPartial ==
  \/ \E s \in SocketIds : Connect(s)
  \/ \E s \in SocketIds : \E len \in SmallChunkSizes : AudioStream(s, len, FALSE)
  \/ \E s \in SocketIds : StartRecording(s)
  \/ \E tm \in armedSttTimers : DebounceTimerFires(tm)
  \/ \E p \in partials : \E text \in Transcripts : \E language \in Languages :
       PartialTranscriptionArrives(p, text, language)
  \/ \E p \in partials : PartialTranscriptionFails(p)
  \/ \E s \in SocketIds : WaitTimerFires(s)
  \/ \E t \in turns : CreateResolves(t)
  \/ \E t \in turns : StreamEnds(t)

SpecPartial == InitPartial /\ [][NextPartial]_vars

\* The bytes buffered for s (0 when s has no buffer)
BufferedBytes(s) == IF Has(audioBuffers, s) THEN TotalBytes(audioBuffers[s]) ELSE 0

\* C31: the fire of a debounce timer leaves every audio buffer as it was;
\* when the buffer of its session totals less than minPartialBytes it starts
\* no transcription (none is in flight that was not, no controller is made
\* or registered); and a transcription it starts is of the whole buffer, of
\* minPartialBytes or more.
C31_FireOnlySnapshots ==
  [][\A tm \in armedSttTimers :
       DebounceTimerFires(tm) =>
         LET s == tm.sock IN
           /\ audioBuffers' = audioBuffers
           /\ BufferedBytes(s) < minPartialBytes =>
                /\ partials' = partials
                /\ nextId'.ctl = nextId.ctl
                /\ controllersBySocket' = controllersBySocket
           /\ \A p \in partials' \ partials :
                /\ p.sock = s /\ p.audio = audioBuffers[s]
                /\ TotalBytes(p.audio) >= minPartialBytes]_vars

\* The timer of the second of two chunks that total one byte less than
\* minPartialBytes has fired: the buffer holds both chunks and no
\* transcription was started
C31_Witness ==
  \E s \in connected :
    /\ Len(audioBuffers[s]) = 2 /\ TotalBytes(audioBuffers[s]) = minPartialBytes - 1
    /\ ArmedFor(s) = {} /\ nextId.timer = 3
    /\ partials = {} /\ nextId.ctl = 1

\* C32: the step in which a partial transcription fails emits nothing (no
\* error event), starts no call of processWithChatGPT and no transcription,
\* leaves the histories, the coalescer states and their timers, the buffers
\* and the connections as they were, and clears the in-progress mark of the
\* session: the next debounce timer of the session that fires on a buffer
\* of minPartialBytes or more starts a transcription.
C32_PartialFailureSwallowed ==
  [][\A p \in partials :
       PartialTranscriptionFails(p) =>
         /\ events' = events
         /\ turns' = turns /\ nextId' = nextId /\ calls' = calls
         /\ finals' = finals /\ partials' = partials \ {p}
         /\ conversationHistory' = conversationHistory
         /\ chatGPTCallStates' = chatGPTCallStates /\ stateObjs' = stateObjs
         /\ waitTimers' = waitTimers /\ armedSttTimers' = armedSttTimers
         /\ audioBuffers' = audioBuffers /\ connected' = connected
         /\ p.sock \notin sttInProgress'
         /\ \A tm \in armedSttTimers' :
              (tm.sock = p.sock /\ BufferedBytes(p.sock) >= minPartialBytes) =>
                \E q \in DebounceCallback(Cur', tm).partials :
                  q.sock = p.sock /\ q.ctl = nextId.ctl]_vars

\* After the first partial transcription of a session failed (nothing was
\* emitted), a second one is in flight
C32_Witness ==
  \E p \in partials :
    /\ partials = {p} /\ p.ctl = 2
    /\ events = <<>> /\ nextId.turn = 1
    /\ p.sock \in sttInProgress

\* C33: the step in which the transcription of a finalization fails emits
\* one error event, "Failed to transcribe audio", and nothing else; it starts
\* no call of processWithChatGPT, queues nothing and arms no timer; the
\* session stays connected; the processing flag of the session is cleared;
\* and a final chunk that the session sends next is finalized: it is taken
\* with what the buffer holds, the buffer is cleared and the flag is set.
C33_FinalFailureRecovers ==
  [][\A f \in finals :
       CompleteTranscriptionFails(f) =>
         LET s == f.sock IN
           /\ events' = Append(events, Ev(s, "error", <<>>, FALSE,
                                          "Failed to transcribe audio", 0, "failure"))
           /\ turns' = turns /\ nextId' = nextId /\ calls' = calls
           /\ stateObjs' = stateObjs /\ waitTimers' = waitTimers
           /\ conversationHistory' = conversationHistory
           /\ finals' = finals \ {f}
           /\ connected' = connected /\ audioBuffers' = audioBuffers
           /\ s \notin processingSockets'
           /\ \A len \in ChunkSizes :
                LET chunk == [id |-> nextId.chunk, len |-> len]
                    m == OnAudioStream(Cur', s, len, TRUE)
                IN  /\ \E g \in m.finals \ finals' :
                         g.sock = s /\ g.audio = Append(audioBuffers[s], chunk)
                    /\ m.audioBuffers[s] = <<>>
                    /\ s \in m.processingSockets]_vars

\* The transcription of the first finalization of a session failed, the
\* client was sent the error, and the finalization of a second final chunk
\* is in progress
C33_Witness ==
  \E f \in finals :
    /\ finals = {f} /\ Len(drains) = 2 /\ drains[2] = [sock |-> f.sock, audio |-> f.audio]
    /\ Len(events) = 1 /\ events[1].ev = "error"
    /\ events[1].msg = "Failed to transcribe audio"
    /\ f.sock \in processingSockets /\ turns = {}

(***************************************************************************)
(* SpecLanguage: the language preference of one session: set-language,     *)
(* final audio whose transcription reports a language or none, and text    *)
(* messages; the replies are empty.                                        *)
(***************************************************************************)
InitLanguage ==
  /\ Start
  /\ env = [NoEnv EXCEPT !.budget = LangEvents, !.inputs = {<<"a">>}, !.sizes = ChunkSizes,
                         !.transcripts = {<<"h", "i">>}, !.languages = Languages]

NextLanguage ==
  \/ \E s \in SocketIds : Connect(s)
  \/ \E s \in SocketIds : \E language \in LanguageInputs : SetLanguage(s, language)
  \/ \E s \in SocketIds : \E text \in TextInputs : TextMessage(s, text)
  \/ \E s \in SocketIds : \E len \in ChunkSizes : AudioStream(s, len, TRUE)
  \/ \E f \in finals : CompleteFileReady(f)
  \/ \E f \in finals : \E text \in Transcripts : \E language \in Languages :
       CompleteTranscriptionArrives(f, text, language)
  \/ \E s \in SocketIds : WaitTimerFires(s)
  \/ \E t \in turns : CreateResolves(t)
  \/ \E t \in turns : StreamEnds(t)

SpecLanguage == InitLanguage /\ [][NextLanguage]_vars

\* C34: the system message of the prompt of every turn that starts ends
\* with the directive that the preference of the session alone decides:
\* respond in the language of the user input when the preference is auto,
\* respond in the preferred language otherwise.
C34_DirectiveFromPreference ==
  [][\A u \in {t \in turns' : t.id >= nextId.turn} :
       LET preference == Prefs(Cur, u.sock).targetLanguage
       IN  u.messages[1] =
             [role |-> "system",
              content |-> IF preference = "auto"
                          THEN <<"Respond in the same language as the user input.">>
                          ELSE <<"Respond in ", preference, ".">>]]_vars

\* C35: a session whose disconnect has been handled has no entry in any of
\* the per-session maps (audio buffer, history, coalescer state, version,
\* preferences, controllers), also after a turn that was in flight at the
\* disconnect has gone on and returned.
C35_NoEntryAfterDisconnect ==
  \A s \in everConnected \ connected :
    /\ ~Has(audioBuffers, s)
    /\ ~Has(conversationHistory, s)
    /\ s \notin chatGPTCallStates
    /\ ~Has(conversationVersions, s)
    /\ ~Has(conversationPreferences, s)
    /\ ~Has(controllersBySocket, s)

\* C36: every call of processWithChatGPT that starts is for a session that
\* is connected: after the disconnect of a session no step (the fire of a
\* wait timer with a pending input, the fire of a debounce timer, a
\* transcript that arrives) starts one for it, queues an input or makes its
\* coalescer wait, and a wait timer is armed for it only by the return of a
\* turn that was in flight.
C36_NoCallAfterDisconnect ==
  [][/\ \A u \in {t \in turns' : t.id >= nextId.turn} :
          u.sock \in connected /\ u.sock \in connected'
     /\ \A s \in everConnected \ connected :
          /\ nextId'.turn = nextId.turn
          /\ stateObjs'[s].pendingInput \in {stateObjs[s].pendingInput, Null}
          /\ ~stateObjs[s].isWaiting => ~stateObjs'[s].isWaiting
          /\ waitTimers'[s] <= waitTimers[s] \/ \E t \in turns : t.sock = s /\ t \notin turns']_vars

\* A session was disconnected while its first turn was in flight and a
\* second text message was pending; the turn has returned and the wait timer
\* has fired: the pending input is gone and no second call was made
C36_Witness ==
  \E s \in everConnected \ connected :
    /\ nextId.turn = 2 /\ turns = {} /\ nextId.chunk = 1 /\ abortedControllers = {}
    /\ env.budget = LiveEvents - 3
    /\ waitTimers[s] = 0
    /\ stateObjs[s] = [isWaiting |-> FALSE, pendingInput |-> Null]

(***************************************************************************)
(* SpecOnce: the coalescer of one session under normal triggers (text      *)
(* messages) and queue-only triggers (partial transcripts), each trigger   *)
(* with a text of its own, so that the text of a call names the trigger it *)
(* came from (the program reads of a text only its trimmed length); the    *)
(* calls are recorded and the replies are empty.                           *)
(***************************************************************************)
UniqueInputs == {<<"a">>, <<"b">>, <<"c">>}

InitOnce ==
  /\ Start
  /\ env = [NoEnv EXCEPT !.log = TRUE, !.budget = OnceEvents, !.inputs = UniqueInputs,
                         !.sizes = ChunkSizes,
                         !.transcripts = {EdgeTranscript, LongTranscript},
                         !.languages = {""}]

\* No trigger has carried the text yet, unless it was replaced while pending
Fresh(text) ==
  /\ \A i \in 1..Len(calls) : calls[i].input # Trim(text)
  /\ \A s \in SocketIds : stateObjs[s].pendingInput # Some(Trim(text))

NextOnce ==
  \/ \E s \in SocketIds : Connect(s)
  \/ \E s \in SocketIds : \E text \in UniqueInputs : Fresh(text) /\ TextMessage(s, text)
  \/ \E s \in SocketIds : \E len \in ChunkSizes : AudioStream(s, len, FALSE)
  \/ \E tm \in armedSttTimers : DebounceTimerFires(tm)
  \/ \E p \in partials : \E text \in Transcripts : \E language \in Languages :
       Fresh(text) /\ PartialTranscriptionArrives(p, text, language)
  \/ \E s \in SocketIds : WaitTimerFires(s)
  \/ \E t \in turns : CreateResolves(t)
  \/ \E t \in turns : StreamEnds(t)

SpecOnce == InitOnce /\ [][NextOnce]_vars

\* C37: no input is passed to processWithChatGPT twice: when every trigger
\* carries a text of its own, no two calls have the same input; a step
\* starts at most one call; and the fire of a wait timer leaves no input
\* pending, the call it starts, if any, having the input that was pending.
C37_DeliveredOnce ==
  /\ [](\A i \in 1..Len(calls) : \A j \in 1..Len(calls) :
          calls[i].input = calls[j].input => i = j)
  /\ [][/\ nextId'.turn <= nextId.turn + 1
        /\ Len(calls') = Len(calls) + (nextId'.turn - nextId.turn)
        /\ \A s \in SocketIds :
             WaitTimerFires(s) =>
               /\ stateObjs'[s].pendingInput = Null
               /\ \A u \in {t \in turns' : t.id >= nextId.turn} :
                    u.sock = s /\ Some(u.input) = stateObjs[s].pendingInput]_vars

\* Three triggers, the second replaced while pending by the third: two
\* calls were made, the second by the wait timer with the third input, and
\* the wait timer of that call has fired too, with nothing to replay
C37_Witness ==
  \E s \in connected :
    /\ Len(calls) = 2 /\ calls[2].via = "timer" /\ calls[1].via = "sync"
    /\ env.budget = OnceEvents - 3
    /\ turns = {} /\ finals = {} /\ partials = {} /\ nextId.chunk = 1
    /\ waitTimers[s] = 0
    /\ stateObjs[s] = [isWaiting |-> FALSE, pendingInput |-> Null]

(***************************************************************************)
(* SpecPairs: SpecHistory with one event more, so that a history with a    *)
(* user message left alone by a failed turn grows past maxMessages.        *)
(***************************************************************************)
InitPairs ==
  /\ Start
  /\ env = [NoEnv EXCEPT !.budget = PairEvents, !.inputs = {<<"a">>}]

SpecPairs == InitPairs /\ [][NextHistory]_vars

\* The message of role with content
Message(role, content) == [role |-> role, content |-> content]

\* The last n messages of a history (all of them when it has fewer)
LastMessages(history, n) ==
  SubSeq(history, IF Len(history) > n THEN Len(history) - n + 1 ELSE 1, Len(history))

\* C38 (amended): the step that starts a turn appends its user message to
\* the history of the session; the step in which the stream of a turn ends
\* finds the history ending with that user message, as the turn left it,
\* appends the assistant message and keeps the last maxMessages messages;
\* no other step changes the history of a live session.  So every assistant
\* message in a history is right after the user message of its turn, or is
\* the first message, the user message before it having been pruned.
C38_OnePairPerTurn ==
  /\ [][\A s \in connected \cap connected' :
          LET h == conversationHistory[s]
              after == conversationHistory'[s]
              started == {u \in turns' : u.id >= nextId.turn /\ u.sock = s}
          IN  /\ \A u \in started : after = Append(h, Message("user", u.input))
              /\ \A t \in turns :
                   (t.sock = s /\ StreamEnds(t)) =>
                     /\ h = t.history
                     /\ h[Len(h)] = Message("user", t.input)
                     /\ after = LastMessages(Append(h, Message("assistant", t.aiResponse)),
                                             maxMessages)
              /\ (started = {} /\ ~\E t \in turns : t.sock = s /\ StreamEnds(t)) => after = h]_vars
  /\ [](\A s \in DOMAIN conversationHistory :
          \A i \in 2..Len(conversationHistory[s]) :
            conversationHistory[s][i].role = "assistant" =>
              conversationHistory[s][i - 1].role = "user")

\* A history of maxMessages messages that begins with an assistant message:
\* the user message of that turn was pruned
C38_Witness ==
  \E s \in connected :
    /\ Len(conversationHistory[s]) = maxMessages
    /\ conversationHistory[s][1].role = "assistant"
    /\ conversationHistory[s][maxMessages].role = "assistant"

\* C38 as stated: the same, no history beginning with an assistant message
C38_EveryReplyAfterItsInput ==
  /\ C38_OnePairPerTurn
  /\ [](\A s \in DOMAIN conversationHistory :
          conversationHistory[s] # <<>> => conversationHistory[s][1].role = "user")

\* b is what is left of a when chunks are removed from its front
IsSuffix(b, a) == \E k \in 0..Len(a) : b = SubSeq(a, k + 1, Len(a))

\* C39: the chunks of a buffer are whole, in arrival order and without a
\* gap, and a buffer that is not empty ends with the last chunk received;
\* the handler of a chunk leaves the buffer with the new chunk less some
\* chunks at its front, or, the chunk being final, takes exactly that as the
\* audio of a finalization and leaves the buffer empty; start-recording
\* empties the buffer; and no other step changes it.
C39_BufferIsSuffix ==
  /\ [](\A s \in connected :
          LET b == audioBuffers[s] IN
            /\ \A i \in 1..(Len(b) - 1) : b[i + 1].id = b[i].id + 1
            /\ b # <<>> => b[Len(b)].id = nextId.chunk - 1)
  /\ [][\A s \in connected \cap connected' :
          LET b == audioBuffers[s]
              after == audioBuffers'[s]
              chunk(len) == [id |-> nextId.chunk, len |-> len]
          IN  \/ after = b
              \/ after = <<>> /\ StartRecording(s)
              \/ \E len \in LargeChunkSizes :
                   /\ AudioStream(s, len, FALSE)
                   /\ after # <<>> /\ IsSuffix(after, Append(b, chunk(len)))
              \/ \E len \in LargeChunkSizes :
                   /\ AudioStream(s, len, TRUE)
                   /\ \/ after = <<>> /\ \E f \in finals' \ finals :
                                           f.audio # <<>> /\ IsSuffix(f.audio, Append(b, chunk(len)))
                      \/ after # <<>> /\ IsSuffix(after, Append(b, chunk(len)))]_vars

\* Two chunks that together exceed maxBytes have been received and nothing
\* was drained or cleared: the buffer holds the second alone
C39_Witness ==
  \E s \in connected :
    /\ Len(audioBuffers[s]) = 1 /\ audioBuffers[s][1].id = 2
    /\ nextId.chunk = 3 /\ nextId.ctl = 1 /\ finals = {}
    /\ env.budget = AudioEvents - 2

====
